---- MODULE Spec2Model ----
(***************************************************************************)
(* A model of the DataLens MCP gateway (src/src/main.rs): the per-tool     *)
(* argument shapes and handlers, the call engine call_rpc, the response    *)
(* classification and the helpers it uses, and the startup that reads the  *)
(* configuration from the environment.                                     *)
(*                                                                         *)
(* Text whose characters the code inspects (response bodies, credentials,  *)
(* header values, the base URL) is a tuple of characters; a character is a *)
(* one-character string, or the name of a multi-byte or control character. *)
(* Text the code treats as opaque (keys, method names, messages) is a      *)
(* string; Cat turns the first into the second.                            *)
(***************************************************************************)
EXTENDS Integers, Sequences, FiniteSets, TLC

VARIABLES
    cfg,       \* AppConfig, fixed after construction
    pc,        \* per invocation: where the handler is
    call,      \* per invocation: the tool called and the arguments delivered
    sent,      \* per invocation: the HTTP requests issued, in order
    resp,      \* per invocation: the status and body received so far
    outcome,   \* per invocation: the Result returned to the caller
    t_pc,      \* truncate_utf8 run step by step: position in the function
    t_input,   \* its input
    t_max,     \* its max_bytes
    t_end,     \* its local variable end
    t_out,     \* its return value (bytes)
    env,       \* the process environment main starts with
    boot       \* where main is: before from_env, configured, serving

vars == <<cfg, pc, call, sent, resp, outcome, t_pc, t_input, t_max, t_end, t_out,
          env, boot>>
callVars == <<cfg, pc, call, sent, resp, outcome>>
truncVars == <<t_pc, t_input, t_max, t_end, t_out>>
bootVars == <<env, boot>>

----------------------------------------------------------------------------
(* Text *)

\* The string of a text: its characters, concatenated (by halves, to keep
\* the evaluation shallow on long texts).
RECURSIVE Cat(_)
Cat(cs) ==
    IF Len(cs) = 0 THEN ""
    ELSE IF Len(cs) = 1 THEN cs[1]
    ELSE LET h == Len(cs) \div 2
         IN  Cat(SubSeq(cs, 1, h)) \o Cat(SubSeq(cs, h + 1, Len(cs)))

\* Bytes of the UTF-8 encoding of one character.
Utf8Width(c) ==
    CASE c \in {"e_acute", "nbsp"} -> 2
      [] c = "euro" -> 3
      [] c = "smiley" -> 4
      [] OTHER -> 1

\* char::is_whitespace, as used by str::trim.
IsWhitespace(c) == c \in {" ", "\n", "\t", "\r", "nbsp"}

\* The whitespace JSON allows between tokens.
IsJsonWs(c) == c \in {" ", "\n", "\t", "\r"}

\* Control characters (below 0x20) that are not whitespace.
IsControl(c) == c \in {"soh"}

\* http::HeaderValue::from_str accepts visible ASCII, space and tab only.
IsVisibleAscii(c) == Utf8Width(c) = 1 /\ ~IsControl(c) /\ c \notin {"\n", "\r"}

RECURSIVE TrimStart(_)
TrimStart(cs) ==
    IF cs /= <<>> /\ IsWhitespace(Head(cs)) THEN TrimStart(Tail(cs)) ELSE cs

RECURSIVE TrimEnd(_)
TrimEnd(cs) ==
    IF cs /= <<>> /\ IsWhitespace(cs[Len(cs)])
    THEN TrimEnd(SubSeq(cs, 1, Len(cs) - 1))
    ELSE cs

\* str::trim
Trim(cs) == TrimEnd(TrimStart(cs))

\* str::starts_with
StartsWith(cs, prefix) ==
    Len(cs) >= Len(prefix) /\ SubSeq(cs, 1, Len(prefix)) = prefix

\* str::trim_end_matches('/')
\* A base URL used as it is configured.
TrimEndSlash_Kept(cs) == cs

RECURSIVE TrimEndSlash(_)
TrimEndSlash(cs) ==
    IF cs /= <<>> /\ cs[Len(cs)] = "/"
    THEN TrimEndSlash(SubSeq(cs, 1, Len(cs) - 1))
    ELSE cs

\* The bytes of a text: byte k of character c is [c |-> c, k |-> k].
RECURSIVE Bytes(_)
Bytes(cs) ==
    IF Len(cs) = 0 THEN <<>>
    ELSE IF Len(cs) = 1
    THEN [k \in 1..Utf8Width(cs[1]) |-> [c |-> cs[1], k |-> k]]
    ELSE LET h == Len(cs) \div 2
         IN  Bytes(SubSeq(cs, 1, h)) \o Bytes(SubSeq(cs, h + 1, Len(cs)))

\* Whether a byte sequence is the encoding of some text: every character's
\* bytes are all there, in order.
ValidUtf8(bs) ==
    \A i \in 1..Len(bs) :
        /\ bs[i].k > 1 =>
              i > 1 /\ bs[i - 1] = [c |-> bs[i].c, k |-> bs[i].k - 1]
        /\ bs[i].k < Utf8Width(bs[i].c) =>
              i < Len(bs) /\ bs[i + 1] = [c |-> bs[i].c, k |-> bs[i].k + 1]

\* The text a valid byte sequence encodes.
IsLeadByte(b) == b.k = 1

FromBytes(bs) ==
    LET leads == SelectSeq(bs, IsLeadByte)
    IN  [i \in 1..Len(leads) |-> leads[i].c]

----------------------------------------------------------------------------
(* serde_json::Value *)

EmptyMap == [k \in {} |-> k]

MapInsert(m, k, v) ==
    [y \in DOMAIN m \cup {k} |-> IF y = k THEN v ELSE m[y]]

JNull == [t |-> "null", b |-> FALSE, n |-> 0, s |-> "", a |-> <<>>, o |-> EmptyMap]
JBool(x) == [JNull EXCEPT !.t = "bool", !.b = x]
JNum(x) == [JNull EXCEPT !.t = "num", !.n = x]
JStr(x) == [JNull EXCEPT !.t = "str", !.s = x]
JArr(x) == [JNull EXCEPT !.t = "arr", !.a = x]
JObj(x) == [JNull EXCEPT !.t = "obj", !.o = x]

\* Value::is_object
is_object(v) == v.t = "obj"

----------------------------------------------------------------------------
(* serde_json::from_str, for JSON without escapes, signs, fractions or     *)
(* exponents: objects, arrays, strings, non-negative integers, true,       *)
(* false, null.                                                            *)

Digits == {"0", "1", "2", "3", "4", "5", "6", "7", "8", "9"}

DigitVal(c) ==
    CASE c = "0" -> 0 [] c = "1" -> 1 [] c = "2" -> 2 [] c = "3" -> 3
      [] c = "4" -> 4 [] c = "5" -> 5 [] c = "6" -> 6 [] c = "7" -> 7
      [] c = "8" -> 8 [] c = "9" -> 9

ParseFail == [ok |-> FALSE, val |-> JNull, pos |-> 0]
ParseOk(v, p) == [ok |-> TRUE, val |-> v, pos |-> p]

RECURSIVE SkipWs(_, _)
SkipWs(s, i) ==
    IF i <= Len(s) /\ IsJsonWs(s[i]) THEN SkipWs(s, i + 1) ELSE i

\* s[i] is the opening quote; the string ends at the next quote, and a
\* control character before it is an error.  Returns 0 for no end.
StringEnd(s, j) ==
    LET stops == {k \in j..Len(s) :
                     s[k] = "\"" \/ IsControl(s[k]) \/ s[k] \in {"\n", "\t", "\r"}}
    IN  IF stops = {} THEN 0
        ELSE LET first == CHOOSE k \in stops : \A m \in stops : k <= m
             IN  IF s[first] = "\"" THEN first ELSE 0

ParseString(s, i) ==
    LET j == StringEnd(s, i + 1)
    IN  IF j = 0 THEN ParseFail
        ELSE ParseOk(JStr(Cat(SubSeq(s, i + 1, j - 1))), j + 1)

RECURSIVE NumberEnd(_, _)
NumberEnd(s, j) ==
    IF j <= Len(s) /\ s[j] \in Digits THEN NumberEnd(s, j + 1) ELSE j

RECURSIVE DecimalValue(_)
DecimalValue(ds) ==
    IF ds = <<>> THEN 0
    ELSE 10 * DecimalValue(SubSeq(ds, 1, Len(ds) - 1)) + DigitVal(ds[Len(ds)])

ParseNumber(s, i) ==
    LET j == IF s[i] = "0" THEN i + 1 ELSE NumberEnd(s, i)
    IN  IF j <= Len(s) /\ s[j] \in Digits THEN ParseFail
        ELSE ParseOk(JNum(DecimalValue(SubSeq(s, i, j - 1))), j)

ParseLiteral(s, i, word, v) ==
    IF i + Len(word) - 1 <= Len(s) /\ SubSeq(s, i, i + Len(word) - 1) = word
    THEN ParseOk(v, i + Len(word))
    ELSE ParseFail

RECURSIVE ParseValue(_, _)
RECURSIVE ParseMembers(_, _, _)
RECURSIVE ParseElements(_, _, _)

\* One value starting at or after position i.
ParseValue(s, i) ==
    LET j == SkipWs(s, i)
    IN  IF j > Len(s) THEN ParseFail
        ELSE CASE s[j] = "{" ->
                    LET k == SkipWs(s, j + 1)
                    IN  IF k <= Len(s) /\ s[k] = "}"
                        THEN ParseOk(JObj(EmptyMap), k + 1)
                        ELSE ParseMembers(s, k, EmptyMap)
               [] s[j] = "[" ->
                    LET k == SkipWs(s, j + 1)
                    IN  IF k <= Len(s) /\ s[k] = "]"
                        THEN ParseOk(JArr(<<>>), k + 1)
                        ELSE ParseElements(s, k, <<>>)
               [] s[j] = "\"" -> ParseString(s, j)
               [] s[j] \in Digits -> ParseNumber(s, j)
               [] s[j] = "t" -> ParseLiteral(s, j, <<"t", "r", "u", "e">>, JBool(TRUE))
               [] s[j] = "f" -> ParseLiteral(s, j, <<"f", "a", "l", "s", "e">>, JBool(FALSE))
               [] s[j] = "n" -> ParseLiteral(s, j, <<"n", "u", "l", "l">>, JNull)
               [] OTHER -> ParseFail

\* The members of an object from position i, where a key must start; a
\* repeated key keeps its last value (Map::insert).
ParseMembers(s, i, acc) ==
    IF i > Len(s) \/ s[i] /= "\"" THEN ParseFail
    ELSE LET key == ParseString(s, i)
         IN  IF ~key.ok THEN ParseFail
             ELSE LET c == SkipWs(s, key.pos)
                  IN  IF c > Len(s) \/ s[c] /= ":" THEN ParseFail
                      ELSE LET v == ParseValue(s, c + 1)
                           IN  IF ~v.ok THEN ParseFail
                               ELSE LET d == SkipWs(s, v.pos)
                                        acc2 == MapInsert(acc, key.val.s, v.val)
                                    IN  IF d > Len(s) THEN ParseFail
                                        ELSE IF s[d] = "}" THEN ParseOk(JObj(acc2), d + 1)
                                        ELSE IF s[d] = ","
                                             THEN ParseMembers(s, SkipWs(s, d + 1), acc2)
                                        ELSE ParseFail

\* The elements of an array from position i, where a value must start.
ParseElements(s, i, acc) ==
    LET v == ParseValue(s, i)
    IN  IF ~v.ok THEN ParseFail
        ELSE LET d == SkipWs(s, v.pos)
                 acc2 == Append(acc, v.val)
             IN  IF d > Len(s) THEN ParseFail
                 ELSE IF s[d] = "]" THEN ParseOk(JArr(acc2), d + 1)
                 ELSE IF s[d] = "," THEN ParseElements(s, SkipWs(s, d + 1), acc2)
                 ELSE ParseFail

\* serde_json::from_str::<Value>: one value, then only whitespace.
from_str_Value(s) ==
    LET r == ParseValue(s, 1)
    IN  IF r.ok /\ SkipWs(s, r.pos) > Len(s)
        THEN [ok |-> TRUE, val |-> r.val]
        ELSE [ok |-> FALSE, val |-> JNull]

\* A decoder that takes any JSON value for a map.
from_str_Map_AnyValue(s) ==
    LET r == from_str_Value(s)
    IN  IF r.ok
        THEN [ok |-> TRUE, val |-> IF r.val.t = "obj" THEN r.val.o ELSE EmptyMap]
        ELSE [ok |-> FALSE, val |-> EmptyMap]

\* serde_json::from_str::<Map<String, Value>>: the value must be an object.
from_str_Map(s) ==
    LET r == from_str_Value(s)
    IN  IF r.ok /\ r.val.t = "obj"
        THEN [ok |-> TRUE, val |-> r.val.o]
        ELSE [ok |-> FALSE, val |-> EmptyMap]

----------------------------------------------------------------------------
(* truncate_utf8 and parse_response_data *)

TruncationMarker ==
    <<".", ".", ".", "(", "t", "r", "u", "n", "c", "a", "t", "e", "d", ")">>

\* A boundary test that takes every index for a boundary.
is_char_boundary_Always(bs, index) == TRUE

\* str::is_char_boundary on the bytes of a string.
is_char_boundary(bs, index) ==
    \/ index = 0
    \/ index = Len(bs)
    \/ index < Len(bs) /\ bs[index + 1].k = 1

\* while !input.is_char_boundary(end) { end -= 1; }
RECURSIVE WalkBack(_, _)
WalkBack(bs, end) ==
    IF is_char_boundary(bs, end) THEN end ELSE WalkBack(bs, end - 1)

\* The bytes of the String truncate_utf8 returns.
truncate_utf8(input, max_bytes) ==
    LET bs == Bytes(input)
    IN  IF Len(bs) <= max_bytes THEN bs
        ELSE SubSeq(bs, 1, WalkBack(bs, max_bytes)) \o Bytes(TruncationMarker)

ErrorBodyBudget == 2000

parse_response_data(body) ==
    LET r == from_str_Value(body)
    IN  IF r.ok THEN r.val
        ELSE JStr(Cat(FromBytes(truncate_utf8(body, ErrorBodyBudget))))

----------------------------------------------------------------------------
(* The argument shapes: #[derive(Deserialize)] structs.  A field is        *)
(* [slot, names, kind, req]: the Rust field, the keys serde accepts for it *)
(* (its name or rename, and its aliases), its Rust type and whether it is  *)
(* required, an Option with #[serde(default)], or has a default function.  *)

F(slot, names, kind, req) ==
    [slot |-> slot, names |-> names, kind |-> kind, req |-> req]

Shape(fields, flatten) == [fields |-> fields, flatten |-> flatten]

DatalensRpcArgs ==
    Shape(<<F("method", {"method"}, "String", "required"),
            F("payload", {"payload"}, "Value", "empty_json_object")>>, FALSE)

ListDirectoryArgs ==
    Shape(<<F("path", {"path"}, "String", "default_root_path"),
            F("created_by", {"created_by", "createdBy"}, "Value", "optional"),
            F("order_by", {"order_by", "orderBy"}, "Value", "optional"),
            F("filters", {"filters"}, "Value", "optional"),
            F("page", {"page"}, "Number", "optional"),
            F("page_size", {"page_size", "pageSize"}, "Number", "optional"),
            F("include_permissions_info",
              {"include_permissions_info", "includePermissionsInfo"}, "bool", "optional")>>,
          TRUE)

GetDatasetArgs ==
    Shape(<<F("dataset_id", {"dataset_id", "datasetId"}, "String", "required"),
            F("workbook_id", {"workbook_id", "workbookId"}, "String", "optional"),
            F("rev_id", {"rev_id", "revId"}, "String", "optional")>>, TRUE)

GetConnectionArgs ==
    Shape(<<F("connection_id", {"connection_id", "connectionId"}, "String", "required"),
            F("workbook_id", {"workbook_id", "workbookId"}, "String", "optional"),
            F("binded_dataset_id", {"binded_dataset_id", "bindedDatasetId"}, "String", "optional"),
            F("rev_id", {"rev_id", "revId"}, "String", "optional")>>, TRUE)

GetDashboardArgs ==
    Shape(<<F("dashboard_id", {"dashboard_id", "dashboardId"}, "String", "required"),
            F("rev_id", {"rev_id", "revId"}, "String", "optional"),
            F("include_permissions",
              {"include_permissions", "includePermissions", "includePermissionsInfo"},
              "bool", "optional"),
            F("include_links", {"include_links", "includeLinks"}, "bool", "optional"),
            F("include_favorite", {"include_favorite", "includeFavorite"}, "bool", "optional"),
            F("branch", {"branch"}, "String", "optional"),
            F("workbook_id", {"workbook_id", "workbookId"}, "String", "optional")>>, TRUE)

GetChartArgs ==
    Shape(<<F("chart_id", {"chart_id", "chartId"}, "String", "required"),
            F("workbook_id", {"workbook_id", "workbookId"}, "String", "optional"),
            F("rev_id", {"rev_id", "revId"}, "String", "optional"),
            F("include_permissions",
              {"include_permissions", "includePermissions", "includePermissionsInfo"},
              "bool", "optional"),
            F("include_links", {"include_links", "includeLinks"}, "bool", "optional"),
            F("include_favorite", {"include_favorite", "includeFavorite"}, "bool", "optional"),
            F("branch", {"branch"}, "String", "optional")>>, TRUE)

GetEntriesArgs ==
    Shape(<<F("exclude_locked", {"exclude_locked", "excludeLocked"}, "bool", "optional"),
            F("include_data", {"include_data", "includeData"}, "bool", "optional"),
            F("include_links", {"include_links", "includeLinks"}, "bool", "optional"),
            F("filters", {"filters"}, "Value", "optional"),
            F("order_by", {"order_by", "orderBy"}, "Value", "optional"),
            F("created_by", {"created_by", "createdBy"}, "Value", "optional"),
            F("page", {"page"}, "Number", "optional"),
            F("page_size", {"page_size", "pageSize"}, "Number", "optional"),
            F("include_permissions_info",
              {"include_permissions_info", "includePermissionsInfo"}, "bool", "optional"),
            F("ignore_workbook_entries",
              {"ignore_workbook_entries", "ignoreWorkbookEntries"}, "bool", "optional"),
            F("scope", {"scope"}, "String", "optional"),
            F("ids", {"ids"}, "Value", "optional")>>, TRUE)

CreateConnectionArgs ==
    Shape(<<F("connection_type", {"type"}, "String", "required")>>, TRUE)

UpdateConnectionArgs ==
    Shape(<<F("connection_id", {"connection_id", "connectionId"}, "String", "required"),
            F("data", {"data"}, "Value", "required")>>, TRUE)

DeleteConnectionArgs ==
    Shape(<<F("connection_id", {"connection_id", "connectionId"}, "String", "required")>>, TRUE)

CreateDashboardArgs ==
    Shape(<<F("entry", {"entry"}, "Value", "required"),
            F("mode", {"mode"}, "String", "required")>>, TRUE)

UpdateDashboardArgs ==
    Shape(<<F("entry", {"entry"}, "Value", "required"),
            F("mode", {"mode"}, "String", "required")>>, TRUE)

DeleteDashboardArgs ==
    Shape(<<F("dashboard_id", {"dashboard_id", "dashboardId"}, "String", "required"),
            F("lock_token", {"lock_token", "lockToken"}, "String", "optional")>>, TRUE)

CreateDatasetArgs ==
    Shape(<<F("dataset", {"dataset"}, "Value", "required"),
            F("created_via", {"created_via", "createdVia"}, "Value", "optional"),
            F("dir_path", {"dir_path", "dirPath"}, "String", "optional"),
            F("name", {"name"}, "String", "optional"),
            F("options", {"options"}, "Value", "optional"),
            F("preview", {"preview"}, "bool", "optional"),
            F("workbook_id", {"workbook_id", "workbookId"}, "String", "optional")>>, TRUE)

UpdateDatasetArgs ==
    Shape(<<F("dataset_id", {"dataset_id", "datasetId"}, "String", "required"),
            F("data", {"data"}, "Value", "optional")>>, TRUE)

DeleteDatasetArgs ==
    Shape(<<F("dataset_id", {"dataset_id", "datasetId"}, "String", "required")>>, TRUE)

ValidateDatasetArgs ==
    Shape(<<F("dataset_id", {"dataset_id", "datasetId"}, "String", "required"),
            F("workbook_id", {"workbook_id", "workbookId"}, "String", "optional"),
            F("data", {"data"}, "Value", "optional")>>, TRUE)

GetEntriesRelationsArgs ==
    Shape(<<F("entry_ids", {"entry_ids", "entryIds"}, "VecString", "required"),
            F("link_direction", {"link_direction", "linkDirection"}, "String", "optional"),
            F("include_permissions_info",
              {"include_permissions_info", "includePermissionsInfo"}, "bool", "optional"),
            F("limit", {"limit"}, "Number", "optional"),
            F("page_token", {"page_token", "pageToken"}, "String", "optional"),
            F("scope", {"scope"}, "String", "optional")>>, TRUE)

DeleteChartArgs ==
    Shape(<<F("chart_id", {"chart_id", "chartId"}, "String", "required")>>, TRUE)

CreateEditorChartArgs ==
    Shape(<<F("entry", {"entry"}, "Value", "required"),
            F("mode", {"mode"}, "String", "optional")>>, TRUE)

UpdateEditorChartArgs ==
    Shape(<<F("entry", {"entry"}, "Value", "required"),
            F("mode", {"mode"}, "String", "required")>>, TRUE)

EntriesPermissionsArgs ==
    Shape(<<F("entry_ids", {"entry_ids", "entryIds"}, "VecString", "required")>>, TRUE)

AuditEntriesUpdatesArgs ==
    Shape(<<F("from", {"from"}, "String", "required"),
            F("to", {"to"}, "String", "optional"),
            F("limit", {"limit"}, "Number", "optional"),
            F("page_token", {"page_token", "pageToken"}, "String", "optional")>>, TRUE)

NoArgs == Shape(<<>>, FALSE)

\* A default path that is not the root.
default_root_path_Dot == "."

default_root_path == "/"

empty_json_object == JObj(EmptyMap)

----------------------------------------------------------------------------
(* Deserialization of the arguments object into a shape, as the derived    *)
(* Deserialize impl does it: each key goes to the field that accepts it, a *)
(* second key for the same field is a duplicate, a key no field accepts    *)
(* goes to the flattened extra map (or is ignored without one), and a      *)
(* field no key filled takes its default or is missing.                    *)

\* Whether a JSON value deserializes into the Rust type.
TypeOk(kind, v) ==
    CASE kind = "String" -> v.t = "str"
      [] kind = "bool" -> v.t = "bool"
      [] kind = "Number" -> v.t = "num"
      [] kind = "VecString" ->
            v.t = "arr" /\ \A i \in 1..Len(v.a) : v.a[i].t = "str"
      [] kind = "Value" -> TRUE

FieldSet(shape) == {shape.fields[i] : i \in 1..Len(shape.fields)}

KnownNames(shape) == UNION {f.names : f \in FieldSet(shape)}

\* A field filled under its own name only, its aliases left unread.
Supplied_NameOnly(f, arguments) == f.names \cap DOMAIN arguments \cap {f.slot}

\* The keys of the arguments that fill field f.
Supplied(f, arguments) == f.names \cap DOMAIN arguments

\* An Option field given null is None.
IsNone(f, arguments) ==
    \/ Supplied(f, arguments) = {}
    \/ /\ f.req = "optional"
       /\ \A k \in Supplied(f, arguments) : arguments[k].t = "null"

FieldValue(f, arguments) ==
    IF Supplied(f, arguments) /= {}
    THEN arguments[CHOOSE k \in Supplied(f, arguments) : TRUE]
    ELSE CASE f.req = "default_root_path" -> JStr(default_root_path)
           [] f.req = "empty_json_object" -> empty_json_object
           [] OTHER -> JNull

\* A deserializer that does not notice a missing required field.
DeserializeError_MissingIgnored(shape, arguments) ==
    IF \E f \in FieldSet(shape) : Cardinality(Supplied(f, arguments)) > 1
    THEN "duplicate field"
    ELSE IF \E f \in FieldSet(shape) :
               /\ ~IsNone(f, arguments)
               /\ Supplied(f, arguments) /= {}
               /\ ~TypeOk(f.kind, FieldValue(f, arguments))
    THEN "invalid type"
    ELSE ""

DeserializeError(shape, arguments) ==
    IF \E f \in FieldSet(shape) : Cardinality(Supplied(f, arguments)) > 1
    THEN "duplicate field"
    ELSE IF \E f \in FieldSet(shape) :
               /\ ~IsNone(f, arguments)
               /\ Supplied(f, arguments) /= {}
               /\ ~TypeOk(f.kind, FieldValue(f, arguments))
    THEN "invalid type"
    ELSE IF \E f \in FieldSet(shape) :
               f.req = "required" /\ Supplied(f, arguments) = {}
    THEN "missing field"
    ELSE ""

\* serde_json::from_value::<Shape>(Value::Object(arguments))
Deserialize(shape, arguments) ==
    LET err == DeserializeError(shape, arguments)
        filled == {f \in FieldSet(shape) :
                       ~(f.req = "optional" /\ IsNone(f, arguments))}
    IN  [ok |-> err = "",
         err |-> err,
         slots |-> IF err /= "" THEN EmptyMap
                   ELSE [sl \in {f.slot : f \in filled} |->
                            FieldValue(CHOOSE f \in filled : f.slot = sl, arguments)],
         extra |-> IF err /= "" \/ ~shape.flatten THEN EmptyMap
                   ELSE [k \in DOMAIN arguments \ KnownNames(shape) |-> arguments[k]]]

----------------------------------------------------------------------------
(* The method catalog and the tool handlers.  A typed handler is its       *)
(* remote method, its argument shape and the payload.insert calls it makes *)
(* in order, each <<field, key>>; a required field is always inserted, an  *)
(* Option field only when it is Some.                                      *)

METHOD_CATALOG_SNAPSHOT_DATE == "2026-02-18"
METHOD_CATALOG_SOURCE_URL == "https://yandex.cloud/en/docs/datalens/openapi-ref/"

\* An entry whose tool is the generic tool, whatever tool was declared.
Item_GenericTool(method, tool, category, experimental) ==
    [method |-> method, tool |-> "datalens_rpc", category |-> category,
     experimental |-> experimental]

Item(method, tool, category, experimental) ==
    [method |-> method, tool |-> tool, category |-> category,
     experimental |-> experimental]

METHOD_CATALOG ==
    <<Item("getConnection", "datalens_get_connection", "read", FALSE),
      Item("createConnection", "datalens_create_connection", "write", FALSE),
      Item("updateConnection", "datalens_update_connection", "write", FALSE),
      Item("deleteConnection", "datalens_delete_connection", "write", FALSE),
      Item("getDashboard", "datalens_get_dashboard", "read", TRUE),
      Item("createDashboard", "datalens_create_dashboard", "write", TRUE),
      Item("updateDashboard", "datalens_update_dashboard", "write", TRUE),
      Item("deleteDashboard", "datalens_delete_dashboard", "write", FALSE),
      Item("getDataset", "datalens_get_dataset", "read", FALSE),
      Item("createDataset", "datalens_create_dataset", "write", FALSE),
      Item("updateDataset", "datalens_update_dataset", "write", FALSE),
      Item("deleteDataset", "datalens_delete_dataset", "write", FALSE),
      Item("validateDataset", "datalens_validate_dataset", "write", FALSE),
      Item("getEntriesRelations", "datalens_get_entries_relations", "read", FALSE),
      Item("getEntries", "datalens_get_entries", "read", FALSE),
      Item("getQLChart", "datalens_get_ql_chart", "read", TRUE),
      Item("deleteQLChart", "datalens_delete_ql_chart", "write", FALSE),
      Item("getWizardChart", "datalens_get_wizard_chart", "read", TRUE),
      Item("deleteWizardChart", "datalens_delete_wizard_chart", "write", FALSE),
      Item("getEditorChart", "datalens_get_editor_chart", "read", TRUE),
      Item("deleteEditorChart", "datalens_delete_editor_chart", "write", FALSE),
      Item("createEditorChart", "datalens_create_editor_chart", "write", TRUE),
      Item("updateEditorChart", "datalens_update_editor_chart", "write", TRUE),
      Item("getEntriesPermissions", "datalens_get_entries_permissions", "read", FALSE),
      Item("getAuditEntriesUpdates", "datalens_get_audit_entries_updates", "read", FALSE),
      Item("listDirectory", "datalens_list_directory", "read", FALSE)>>

\* for (key, value) in extra { target.insert(key, value); }
\* A merge in which a typed key keeps its value.
extend_with_extra_TypedWins(target, extra) ==
    [k \in DOMAIN target \cup DOMAIN extra |->
        IF k \in DOMAIN target THEN target[k] ELSE extra[k]]

extend_with_extra(target, extra) ==
    [k \in DOMAIN target \cup DOMAIN extra |->
        IF k \in DOMAIN extra THEN extra[k] ELSE target[k]]

\* Inserts that write null for a field that is None.
RECURSIVE InsertTyped_NullForNone(_, _, _)
InsertTyped_NullForNone(payload, inserts, slots) ==
    IF inserts = <<>> THEN payload
    ELSE LET slot == Head(inserts)[1]
             key == Head(inserts)[2]
         IN  InsertTyped_NullForNone(
                 MapInsert(payload, key,
                           IF slot \in DOMAIN slots THEN slots[slot] ELSE JNull),
                 Tail(inserts), slots)

\* The typed inserts of a handler, in order, into payload.
RECURSIVE InsertTyped(_, _, _)
InsertTyped(payload, inserts, slots) ==
    IF inserts = <<>> THEN payload
    ELSE LET slot == Head(inserts)[1]
             key == Head(inserts)[2]
         IN  InsertTyped(IF slot \in DOMAIN slots
                         THEN MapInsert(payload, key, slots[slot])
                         ELSE payload,
                         Tail(inserts), slots)

GetChartInserts ==
    <<<<"chart_id", "chartId">>, <<"workbook_id", "workbookId">>,
      <<"rev_id", "revId">>, <<"include_permissions", "includePermissions">>,
      <<"include_links", "includeLinks">>,
      <<"include_favorite", "includeFavorite">>, <<"branch", "branch">>>>

build_get_chart_payload(args) ==
    extend_with_extra(InsertTyped(EmptyMap, GetChartInserts, args.slots), args.extra)

\* A handler that inserts its fields itself, and one that calls
\* build_get_chart_payload.
Handler(method, shape, inserts) ==
    [method |-> method, shape |-> shape, inserts |-> inserts,
     builder |-> "inline"]

ChartHandler(method) ==
    [method |-> method, shape |-> GetChartArgs, inserts |-> <<>>,
     builder |-> "build_get_chart_payload"]

datalens_list_directory ==
    Handler("listDirectory", ListDirectoryArgs,
            <<<<"path", "path">>, <<"created_by", "createdBy">>,
              <<"order_by", "orderBy">>, <<"filters", "filters">>,
              <<"page", "page">>, <<"page_size", "pageSize">>,
              <<"include_permissions_info", "includePermissionsInfo">>>>)

datalens_get_entries ==
    Handler("getEntries", GetEntriesArgs,
            <<<<"exclude_locked", "excludeLocked">>, <<"include_data", "includeData">>,
              <<"include_links", "includeLinks">>, <<"filters", "filters">>,
              <<"order_by", "orderBy">>, <<"created_by", "createdBy">>,
              <<"page", "page">>, <<"page_size", "pageSize">>,
              <<"include_permissions_info", "includePermissionsInfo">>,
              <<"ignore_workbook_entries", "ignoreWorkbookEntries">>,
              <<"scope", "scope">>, <<"ids", "ids">>>>)

\* A get-dataset handler that sends the revision as the chart tools do.
datalens_get_dataset_CamelRevision ==
    Handler("getDataset", GetDatasetArgs,
            <<<<"dataset_id", "datasetId">>, <<"workbook_id", "workbookId">>,
              <<"rev_id", "revId">>>>)

datalens_get_dataset ==
    Handler("getDataset", GetDatasetArgs,
            <<<<"dataset_id", "datasetId">>, <<"workbook_id", "workbookId">>,
              <<"rev_id", "rev_id">>>>)

datalens_get_dashboard ==
    Handler("getDashboard", GetDashboardArgs,
            <<<<"dashboard_id", "dashboardId">>, <<"rev_id", "revId">>,
              <<"include_permissions", "includePermissions">>,
              <<"include_links", "includeLinks">>,
              <<"include_favorite", "includeFavorite">>, <<"branch", "branch">>,
              <<"workbook_id", "workbookId">>>>)

datalens_get_connection ==
    Handler("getConnection", GetConnectionArgs,
            <<<<"connection_id", "connectionId">>, <<"workbook_id", "workbookId">>,
              <<"binded_dataset_id", "bindedDatasetId">>, <<"rev_id", "rev_id">>>>)

datalens_create_connection ==
    Handler("createConnection", CreateConnectionArgs, <<<<"connection_type", "type">>>>)

datalens_update_connection ==
    Handler("updateConnection", UpdateConnectionArgs,
            <<<<"connection_id", "connectionId">>, <<"data", "data">>>>)

datalens_delete_connection ==
    Handler("deleteConnection", DeleteConnectionArgs,
            <<<<"connection_id", "connectionId">>>>)

datalens_create_dashboard ==
    Handler("createDashboard", CreateDashboardArgs,
            <<<<"entry", "entry">>, <<"mode", "mode">>>>)

datalens_update_dashboard ==
    Handler("updateDashboard", UpdateDashboardArgs,
            <<<<"entry", "entry">>, <<"mode", "mode">>>>)

datalens_delete_dashboard ==
    Handler("deleteDashboard", DeleteDashboardArgs,
            <<<<"dashboard_id", "dashboardId">>, <<"lock_token", "lockToken">>>>)

\* A create-dataset handler that calls the update method.
datalens_create_dataset_CallsUpdate ==
    Handler("updateDataset", CreateDatasetArgs,
            <<<<"dataset", "dataset">>, <<"created_via", "created_via">>,
              <<"dir_path", "dir_path">>, <<"name", "name">>,
              <<"options", "options">>, <<"preview", "preview">>,
              <<"workbook_id", "workbook_id">>>>)

datalens_create_dataset ==
    Handler("createDataset", CreateDatasetArgs,
            <<<<"dataset", "dataset">>, <<"created_via", "created_via">>,
              <<"dir_path", "dir_path">>, <<"name", "name">>,
              <<"options", "options">>, <<"preview", "preview">>,
              <<"workbook_id", "workbook_id">>>>)

datalens_update_dataset ==
    Handler("updateDataset", UpdateDatasetArgs,
            <<<<"dataset_id", "datasetId">>, <<"data", "data">>>>)

\* A delete-dataset handler that writes the id under a key that is no name
\* of the field.
datalens_delete_dataset_UnnamedKey ==
    Handler("deleteDataset", DeleteDatasetArgs, <<<<"dataset_id", "note">>>>)

datalens_delete_dataset ==
    Handler("deleteDataset", DeleteDatasetArgs, <<<<"dataset_id", "datasetId">>>>)

datalens_validate_dataset ==
    Handler("validateDataset", ValidateDatasetArgs,
            <<<<"dataset_id", "datasetId">>, <<"workbook_id", "workbookId">>,
              <<"data", "data">>>>)

datalens_get_entries_relations ==
    Handler("getEntriesRelations", GetEntriesRelationsArgs,
            <<<<"entry_ids", "entryIds">>, <<"link_direction", "linkDirection">>,
              <<"include_permissions_info", "includePermissionsInfo">>,
              <<"limit", "limit">>, <<"page_token", "pageToken">>,
              <<"scope", "scope">>>>)

datalens_get_ql_chart == ChartHandler("getQLChart")

datalens_delete_ql_chart ==
    Handler("deleteQLChart", DeleteChartArgs, <<<<"chart_id", "chartId">>>>)

datalens_get_wizard_chart == ChartHandler("getWizardChart")

datalens_delete_wizard_chart ==
    Handler("deleteWizardChart", DeleteChartArgs, <<<<"chart_id", "chartId">>>>)

datalens_get_editor_chart == ChartHandler("getEditorChart")

datalens_delete_editor_chart ==
    Handler("deleteEditorChart", DeleteChartArgs, <<<<"chart_id", "chartId">>>>)

datalens_create_editor_chart ==
    Handler("createEditorChart", CreateEditorChartArgs,
            <<<<"entry", "entry">>, <<"mode", "mode">>>>)

datalens_update_editor_chart ==
    Handler("updateEditorChart", UpdateEditorChartArgs,
            <<<<"entry", "entry">>, <<"mode", "mode">>>>)

datalens_get_entries_permissions ==
    Handler("getEntriesPermissions", EntriesPermissionsArgs,
            <<<<"entry_ids", "entryIds">>>>)

datalens_get_audit_entries_updates ==
    Handler("getAuditEntriesUpdates", AuditEntriesUpdatesArgs,
            <<<<"from", "from">>, <<"to", "to">>, <<"limit", "limit">>,
              <<"page_token", "pageToken">>>>)

\* The #[tool(name = ...)] registrations of the typed handlers.
TypedTools ==
    [datalens_list_directory |-> datalens_list_directory,
     datalens_get_entries |-> datalens_get_entries,
     datalens_get_dataset |-> datalens_get_dataset,
     datalens_get_dashboard |-> datalens_get_dashboard,
     datalens_get_connection |-> datalens_get_connection,
     datalens_create_connection |-> datalens_create_connection,
     datalens_update_connection |-> datalens_update_connection,
     datalens_delete_connection |-> datalens_delete_connection,
     datalens_create_dashboard |-> datalens_create_dashboard,
     datalens_update_dashboard |-> datalens_update_dashboard,
     datalens_delete_dashboard |-> datalens_delete_dashboard,
     datalens_create_dataset |-> datalens_create_dataset,
     datalens_update_dataset |-> datalens_update_dataset,
     datalens_delete_dataset |-> datalens_delete_dataset,
     datalens_validate_dataset |-> datalens_validate_dataset,
     datalens_get_entries_relations |-> datalens_get_entries_relations,
     datalens_get_ql_chart |-> datalens_get_ql_chart,
     datalens_delete_ql_chart |-> datalens_delete_ql_chart,
     datalens_get_wizard_chart |-> datalens_get_wizard_chart,
     datalens_delete_wizard_chart |-> datalens_delete_wizard_chart,
     datalens_get_editor_chart |-> datalens_get_editor_chart,
     datalens_delete_editor_chart |-> datalens_delete_editor_chart,
     datalens_create_editor_chart |-> datalens_create_editor_chart,
     datalens_update_editor_chart |-> datalens_update_editor_chart,
     datalens_get_entries_permissions |-> datalens_get_entries_permissions,
     datalens_get_audit_entries_updates |-> datalens_get_audit_entries_updates]

TypedToolNames == DOMAIN TypedTools

ToolNames == TypedToolNames \cup {"datalens_rpc", "datalens_list_methods"}

\* The shape a tool's arguments are deserialized into.
ToolShape(tool) ==
    CASE tool = "datalens_rpc" -> DatalensRpcArgs
      [] tool = "datalens_list_methods" -> NoArgs
      [] OTHER -> TypedTools[tool].shape

\* The payload a typed handler builds from its deserialized arguments.
TypedPayload(tool, args) ==
    IF TypedTools[tool].builder = "build_get_chart_payload"
    THEN build_get_chart_payload(args)
    ELSE extend_with_extra(
             InsertTyped(EmptyMap, TypedTools[tool].inserts, args.slots),
             args.extra)

----------------------------------------------------------------------------
(* Results: Result<ToolJson, McpError>.  An error has the constructor that *)
(* made it (code), its message and its optional data.                      *)

Ok(map) ==
    [ok |-> TRUE, value |-> map, code |-> "", message |-> "",
     has_data |-> FALSE, data |-> JNull]

Err(code, message) ==
    [ok |-> FALSE, value |-> EmptyMap, code |-> code, message |-> message,
     has_data |-> FALSE, data |-> JNull]

ErrWith(code, message, data) ==
    [ok |-> FALSE, value |-> EmptyMap, code |-> code, message |-> message,
     has_data |-> TRUE, data |-> data]

NoOutcome == Err("", "")

Some(x) == [some |-> TRUE, v |-> x]
None == [some |-> FALSE, v |-> <<>>]

----------------------------------------------------------------------------
(* datalens_list_methods *)

\* A listing that reports the remote method where the tool belongs.
CatalogEntryJson_ToolIsMethod(item) ==
    JObj([method |-> JStr(item.method),
          mcpTool |-> JStr(item.method),
          category |-> JStr(item.category),
          experimental |-> JBool(item.experimental)])

CatalogEntryJson(item) ==
    JObj([method |-> JStr(item.method),
          mcpTool |-> JStr(item.tool),
          category |-> JStr(item.category),
          experimental |-> JBool(item.experimental)])

\* A listing that returns the entries last to first.
datalens_list_methods_Reversed ==
    LET methods == [i \in 1..Len(METHOD_CATALOG) |->
                       CatalogEntryJson(METHOD_CATALOG[Len(METHOD_CATALOG) + 1 - i])]
    IN  Ok([snapshotDate |-> JStr(METHOD_CATALOG_SNAPSHOT_DATE),
            sourceUrl |-> JStr(METHOD_CATALOG_SOURCE_URL),
            totalMethods |-> JNum(Len(methods)),
            genericTool |-> JStr("datalens_rpc"),
            methods |-> JArr(methods)])

datalens_list_methods ==
    LET methods == [i \in 1..Len(METHOD_CATALOG) |-> CatalogEntryJson(METHOD_CATALOG[i])]
    IN  Ok([snapshotDate |-> JStr(METHOD_CATALOG_SNAPSHOT_DATE),
            sourceUrl |-> JStr(METHOD_CATALOG_SOURCE_URL),
            totalMethods |-> JNum(Len(methods)),
            genericTool |-> JStr("datalens_rpc"),
            methods |-> JArr(methods)])

----------------------------------------------------------------------------
(* call_rpc *)

ApplicationJson ==
    <<"a", "p", "p", "l", "i", "c", "a", "t", "i", "o", "n", "/", "j", "s", "o", "n">>

OAuthPrefix == <<"O", "A", "u", "t", "h", " ">>

\* HeaderValue::from_str(value) succeeds.
HeaderValueOk(value) == \A i \in 1..Len(value) : IsVisibleAscii(value[i])

\* add_header's error for a header whose value is refused.
add_header_error(key) ==
    Err("invalid_params", "invalid header value for " \o key)

\* A legacy header that is prefixed whatever the credential starts with.
legacy_auth_header_AlwaysPrefix(subject_token) == OAuthPrefix \o subject_token

legacy_auth_header(subject_token) ==
    IF StartsWith(subject_token, OAuthPrefix)
    THEN subject_token
    ELSE OAuthPrefix \o subject_token

\* A success test that knows 200 only.
is_success_Only200(status) == status = 200

\* status.is_success()
is_success(status) == status >= 200 /\ status < 300

MethodData(method) == JObj([method |-> JStr(method)])

\* Checks that let a missing credential through.
call_rpc_checks_NoTokenCheck(method, payload) ==
    IF ~is_object(payload)
    THEN ErrWith("invalid_params", "payload must be a JSON object", MethodData(method))
    ELSE IF ~cfg.org_id.some
    THEN Err("invalid_request", "DATALENS_ORG_ID environment variable is required")
    ELSE IF ~HeaderValueOk(cfg.api_version) THEN add_header_error("x-dl-api-version")
    ELSE IF ~HeaderValueOk(cfg.org_id.v) THEN add_header_error("x-dl-org-id")
    ELSE IF ~HeaderValueOk(cfg.subject_token.v)
    THEN add_header_error("x-yacloud-subjecttoken")
    ELSE IF ~HeaderValueOk(legacy_auth_header(cfg.subject_token.v))
    THEN add_header_error("x-dl-auth-token")
    ELSE NoOutcome

\* Checks that let a payload of any JSON type through.
call_rpc_checks_NoObjectCheck(method, payload) ==
    IF ~cfg.org_id.some
    THEN Err("invalid_request", "DATALENS_ORG_ID environment variable is required")
    ELSE IF ~cfg.subject_token.some
    THEN Err("invalid_request",
             "YC_IAM_TOKEN (or DATALENS_IAM_TOKEN) environment variable is required")
    ELSE IF ~HeaderValueOk(cfg.api_version) THEN add_header_error("x-dl-api-version")
    ELSE IF ~HeaderValueOk(cfg.org_id.v) THEN add_header_error("x-dl-org-id")
    ELSE IF ~HeaderValueOk(cfg.subject_token.v)
    THEN add_header_error("x-yacloud-subjecttoken")
    ELSE IF ~HeaderValueOk(legacy_auth_header(cfg.subject_token.v))
    THEN add_header_error("x-dl-auth-token")
    ELSE NoOutcome

\* Checks that look at the credential before the organization id.
call_rpc_checks_TokenFirst(method, payload) ==
    IF ~is_object(payload)
    THEN ErrWith("invalid_params", "payload must be a JSON object", MethodData(method))
    ELSE IF ~cfg.subject_token.some
    THEN Err("invalid_request",
             "YC_IAM_TOKEN (or DATALENS_IAM_TOKEN) environment variable is required")
    ELSE IF ~cfg.org_id.some
    THEN Err("invalid_request", "DATALENS_ORG_ID environment variable is required")
    ELSE IF ~HeaderValueOk(cfg.api_version) THEN add_header_error("x-dl-api-version")
    ELSE IF ~HeaderValueOk(cfg.org_id.v) THEN add_header_error("x-dl-org-id")
    ELSE IF ~HeaderValueOk(cfg.subject_token.v)
    THEN add_header_error("x-yacloud-subjecttoken")
    ELSE IF ~HeaderValueOk(legacy_auth_header(cfg.subject_token.v))
    THEN add_header_error("x-dl-auth-token")
    ELSE NoOutcome

\* The checks of call_rpc before the request is sent: the error returned,
\* or NoOutcome when the request goes out.
call_rpc_checks(method, payload) ==
    IF ~is_object(payload)
    THEN ErrWith("invalid_params", "payload must be a JSON object", MethodData(method))
    ELSE IF ~cfg.org_id.some
    THEN Err("invalid_request", "DATALENS_ORG_ID environment variable is required")
    ELSE IF ~cfg.subject_token.some
    THEN Err("invalid_request",
             "YC_IAM_TOKEN (or DATALENS_IAM_TOKEN) environment variable is required")
    ELSE IF ~HeaderValueOk(cfg.api_version) THEN add_header_error("x-dl-api-version")
    ELSE IF ~HeaderValueOk(cfg.org_id.v) THEN add_header_error("x-dl-org-id")
    ELSE IF ~HeaderValueOk(cfg.subject_token.v)
    THEN add_header_error("x-yacloud-subjecttoken")
    ELSE IF ~HeaderValueOk(legacy_auth_header(cfg.subject_token.v))
    THEN add_header_error("x-dl-auth-token")
    ELSE NoOutcome

\* The request call_rpc sends.
call_rpc_request(method, payload) ==
    [verb |-> "POST",
     url |-> Cat(TrimEndSlash(cfg.base_url)) \o "/rpc/" \o method,
     headers |-> [accept |-> ApplicationJson,
                  content_type |-> ApplicationJson,
                  x_dl_api_version |-> cfg.api_version,
                  x_dl_org_id |-> cfg.org_id.v,
                  x_yacloud_subjecttoken |-> cfg.subject_token.v,
                  x_dl_auth_token |-> legacy_auth_header(cfg.subject_token.v)],
     body |-> payload]

send_error(method, cause) ==
    ErrWith("internal_error", "failed to reach DataLens API: " \o cause,
            MethodData(method))

read_error(cause) ==
    Err("internal_error", "failed to read response: " \o cause)

\* The text of a serde_json error, which the model does not tell apart.
SerdeError == "{error}"

\* A response handler that looks for a blank body before the status.
classify_response_BlankFirst(method, status, body) ==
    IF Trim(body) = <<>>
    THEN Ok(EmptyMap)
    ELSE IF ~is_success(status)
    THEN ErrWith("internal_error",
                 "DataLens API returned " \o ToString(status) \o " for method " \o method,
                 JObj([method |-> JStr(method),
                       status |-> JNum(status),
                       response |-> parse_response_data(body)]))
    ELSE LET parsed == from_str_Map(body)
         IN  IF ~parsed.ok
             THEN ErrWith("internal_error",
                          "DataLens API returned invalid or non-object JSON: "
                              \o SerdeError,
                          JObj([method |-> JStr(method),
                                body |-> JStr(Cat(FromBytes(
                                            truncate_utf8(body, ErrorBodyBudget))))]))
             ELSE Ok(parsed.val)

\* The part of call_rpc after the body is read.  The status is shown by
\* its number; the reason phrase Display adds is left out.
classify_response(method, status, body) ==
    IF ~is_success(status)
    THEN ErrWith("internal_error",
                 "DataLens API returned " \o ToString(status) \o " for method " \o method,
                 JObj([method |-> JStr(method),
                       status |-> JNum(status),
                       response |-> parse_response_data(body)]))
    ELSE IF Trim(body) = <<>>
    THEN Ok(EmptyMap)
    ELSE LET parsed == from_str_Map(body)
         IN  IF ~parsed.ok
             THEN ErrWith("internal_error",
                          "DataLens API returned invalid or non-object JSON: "
                              \o SerdeError,
                          JObj([method |-> JStr(method),
                                body |-> JStr(Cat(FromBytes(
                                            truncate_utf8(body, ErrorBodyBudget))))]))
             ELSE Ok(parsed.val)

----------------------------------------------------------------------------
(* A tool call up to its first await on the network: Parameters<T>         *)
(* deserializes the arguments, the handler builds method and payload, and  *)
(* call_rpc checks them.                                                   *)

deserialize_error == Err("invalid_params", "failed to deserialize parameters")

\* The method a tool passes to call_rpc ("" for the catalog listing).
ToolMethod(tool, args) ==
    CASE tool = "datalens_rpc" -> args.slots["method"].s
      [] tool = "datalens_list_methods" -> ""
      [] OTHER -> TypedTools[tool].method

\* The payload a tool passes to call_rpc.
ToolPayload(tool, args) ==
    CASE tool = "datalens_rpc" -> args.slots["payload"]
      [] tool = "datalens_list_methods" -> JNull
      [] OTHER -> JObj(TypedPayload(tool, args))

\* [method, request, outcome]: request.verb is "" when nothing is sent,
\* and outcome is NoOutcome when the call awaits the response.
NoRequest == [verb |-> "", url |-> "", headers |-> EmptyMap, body |-> JNull]

\* A handler called with its argument struct, up to its first await.
HandlerCall(tool, args) ==
    IF tool = "datalens_list_methods"
    THEN [method |-> "", request |-> NoRequest, outcome |-> datalens_list_methods]
    ELSE LET method == ToolMethod(tool, args)
             payload == ToolPayload(tool, args)
             failed == call_rpc_checks(method, payload)
         IN  IF failed /= NoOutcome
             THEN [method |-> method, request |-> NoRequest, outcome |-> failed]
             ELSE [method |-> method,
                   request |-> call_rpc_request(method, payload),
                   outcome |-> NoOutcome]

ToolCall(tool, arguments) ==
    LET args == Deserialize(ToolShape(tool), arguments)
    IN  IF ~args.ok
        THEN [method |-> "", request |-> NoRequest, outcome |-> deserialize_error]
        ELSE HandlerCall(tool, args)

----------------------------------------------------------------------------
(* Inputs *)

\* Bounds of the model.
MaxArgKeys == 2
MaxOptionFields == 2
MaxExtraKeys == 1
MaxTruncLen == 3
MaxCutoff == 6
MaxEnvLen == 3
U64Bits == 6

\* The invocations the host may have in flight at once, and the one that
\* the specifications of a single caller run.
Invocations == {"c1", "c2"}
SingleCaller == {"c1"}

\* The subsets of S with at most k elements.
RECURSIVE SmallSubsets(_, _)
SmallSubsets(S, k) ==
    IF k = 0 THEN {{}}
    ELSE LET smaller == SmallSubsets(S, k - 1)
         IN  smaller \cup {p \cup {x} : p \in smaller, x \in S}

TextObject == <<"{", "\"", "a", "\"", ":", "1", "}">>
TextArray == <<" ", "[", "1", "]">>
TextPlain == <<"p", "l", "a", "i", "n", "-", "t", "e", "x", "t">>
TextPath == <<"{", "\"", "p", "a", "t", "h", "\"", ":", "\"", "/", "\"", "}">>

\* The strings a caller may put where a JSON value is expected.
JsonStrings == {TextObject, TextArray, TextPlain, TextPath}

\* The fields the spec calls string-or-JSON.
StringOrJsonSlots == {"payload", "data", "dataset", "entry"}

\* A key that no shape models.
ExtraKeys == {"note"}

MethodNames == {"listDirectory", "getDataset", "noSuchMethod"}

\* The values a caller may give under a key of a tool's arguments.
SampleValues(tool, key) ==
    LET shape == ToolShape(tool)
    IN  IF key \notin KnownNames(shape) THEN {JStr("x")}
        ELSE LET f == CHOOSE g \in FieldSet(shape) : key \in g.names
             IN  CASE f.slot = "method" -> {JStr(m) : m \in MethodNames}
                   [] f.slot = "payload" ->
                        {JObj([path |-> JStr("/")]), JArr(<<JStr("not-an-object")>>),
                         JNum(1), JBool(TRUE), JNull}
                        \cup {JStr(Cat(t)) : t \in JsonStrings}
                   [] f.slot \in StringOrJsonSlots \ {"payload"} ->
                        {JObj([a |-> JNum(1)])} \cup {JStr(Cat(t)) : t \in JsonStrings}
                   [] f.kind = "String" -> {JStr("v")}
                   [] f.kind = "bool" -> {JBool(TRUE)}
                   [] f.kind = "Number" -> {JNum(1)}
                   [] f.kind = "VecString" -> {JArr(<<JStr("e1")>>)}
                   [] OTHER -> {JObj(EmptyMap)}

\* The objects with the keys D that give every key one of its values.
RECURSIVE ObjectsOver(_, _)
ObjectsOver(tool, D) ==
    IF D = {} THEN {EmptyMap}
    ELSE LET k == CHOOSE x \in D : TRUE
         IN  {MapInsert(m, k, v) :
                 m \in ObjectsOver(tool, D \ {k}), v \in SampleValues(tool, k)}

\* The arguments objects a caller may deliver to a tool.
ArgumentSets(tool) ==
    LET keys == KnownNames(ToolShape(tool)) \cup ExtraKeys
    IN  UNION {ObjectsOver(tool, D) : D \in SmallSubsets(keys, MaxArgKeys)}

\* The keys a typed handler inserts for its typed fields.
EmittedKeys(tool) ==
    LET inserts == IF TypedTools[tool].builder = "build_get_chart_payload"
                   THEN GetChartInserts ELSE TypedTools[tool].inserts
    IN  {inserts[n][2] : n \in 1..Len(inserts)}

\* A value of a field's Rust type.
SlotSample(kind) ==
    CASE kind = "String" -> JStr("v")
      [] kind = "bool" -> JBool(TRUE)
      [] kind = "Number" -> JNum(1)
      [] kind = "VecString" -> JArr(<<JStr("e1")>>)
      [] OTHER -> JObj([a |-> JNum(1)])

\* The argument structs a caller may build for a typed handler: every
\* field that is not an Option, some of the Option fields, and an extra
\* bag with up to MaxExtraKeys keys, among them keys the handler inserts.
HandlerStructs(tool) ==
    LET fields == FieldSet(ToolShape(tool))
        always == {f.slot : f \in {g \in fields : g.req /= "optional"}}
        options == {f.slot : f \in {g \in fields : g.req = "optional"}}
        kindOf(slot) == (CHOOSE f \in fields : f.slot = slot).kind
        bags == SmallSubsets(ExtraKeys \cup EmittedKeys(tool), MaxExtraKeys)
    IN  {[ok |-> TRUE, err |-> "",
          slots |-> [sl \in always \cup some |-> SlotSample(kindOf(sl))],
          extra |-> [k \in bag |-> JStr("from-extra")]] :
            some \in SmallSubsets(options, MaxOptionFields), bag \in bags}

\* Every arguments object of every tool.
GatewayCalls ==
    UNION {{<<tool, arguments>> : arguments \in ArgumentSets(tool)} : tool \in ToolNames}

\* The calls that exercise the call engine: the generic tool with every
\* method and payload, and two typed tools.
EngineCalls ==
    {<<"datalens_rpc", arguments>> : arguments \in ArgumentSets("datalens_rpc")}
    \cup {<<"datalens_list_directory", EmptyMap>>,
          <<"datalens_get_dataset", [datasetId |-> JStr("ds-1")]>>,
          <<"datalens_list_methods", EmptyMap>>}

BaseUrl == <<"h", "t", "t", "p", ":", "/", "/", "d", "l">>
TextOrg == <<"o", "r", "g", "-", "1", "2", "3">>
TextAbc == <<"a", "b", "c">>
DEFAULT_TIMEOUT_SECONDS == 30

\* Configurations AppConfig::from_env can produce: the organization id and
\* the credential each unset or set, a credential no header can carry.
GatewayConfigs ==
    [base_url : {BaseUrl},
     api_version : {<<"0">>},
     org_id : {None, Some(TextOrg)},
     subject_token : {None, Some(TextAbc), Some(<<"t", "e_acute">>)},
     timeout : {DEFAULT_TIMEOUT_SECONDS}]

\* More of them: a base URL with a trailing slash, credentials with and
\* without the OAuth prefix.
EngineConfigs ==
    [base_url : {BaseUrl, BaseUrl \o <<"/">>},
     api_version : {<<"0">>},
     org_id : {None, Some(TextOrg)},
     subject_token : {None, Some(TextAbc), Some(OAuthPrefix \o TextAbc),
                      Some(<<"O", "A", "u", "t", "h">> \o TextAbc),
                      Some(<<"t", "e_acute">>)},
     timeout : {DEFAULT_TIMEOUT_SECONDS}]

BodyEntries ==
    <<"{", "\"", "e", "n", "t", "r", "i", "e", "s", "\"", ":", " ", "[", "]", "}">>
BodyBoom ==
    <<"{", "\"", "e", "r", "r", "o", "r", "\"", ":", "\"", "b", "o", "o", "m", "\"", "}">>
BodyOops == <<"o", "o", "p", "s">>

\* A body longer than the budget for error details, whose byte at the
\* budget is inside a multi-byte character.
BodyLong == [i \in 1..(ErrorBodyBudget - 1) |-> "x"] \o <<"smiley", "y">>

\* A body that is one JSON string longer than the budget and the marker.
BodyLongJson ==
    <<"\"">> \o [i \in 1..(ErrorBodyBudget + Len(TruncationMarker) + 1) |-> "x"]
        \o <<"\"">>

\* The responses the remote API may send.
GatewayStatuses == {200, 500}
GatewayBodies == {<<>>, BodyEntries, BodyOops}

EngineStatuses == {200, 204, 404, 500}
EngineBodies ==
    {<<>>, <<" ", "\n">>, <<"nbsp">>,
     BodyEntries, BodyBoom, <<" ", "{", "}", "\n">>,
     <<"{", "\"", "a", "\"", ":", "1", ",", "\"", "a", "\"", ":", "2", "}">>,
     <<"[", "1", "]">>, <<"7">>, <<"\"", "s", "\"">>, <<"n", "u", "l", "l">>,
     BodyOops, <<"{", "}", "x">>, <<"{", "\"", "a", "\"", ":">>,
     <<"e_acute", "smiley">>, BodyLong, BodyLongJson}

TransportCauses == {"operation timed out", "connection refused"}

----------------------------------------------------------------------------
(* Startup: AppConfig::from_env reads the process environment once.  A     *)
(* variable of the environment is unset, set to text, or set to bytes that *)
(* are not Unicode (env::var fails on those as on an unset variable).      *)

Unset == [present |-> FALSE, unicode |-> TRUE, v |-> <<>>]
NotUnicode == [present |-> TRUE, unicode |-> FALSE, v |-> <<>>]
SetTo(text) == [present |-> TRUE, unicode |-> TRUE, v |-> text]

EnvNames ==
    {"DATALENS_BASE_URL", "DATALENS_API_VERSION", "DATALENS_ORG_ID",
     "DATALENS_IAM_TOKEN", "YC_IAM_TOKEN", "DATALENS_SUBJECT_TOKEN",
     "DATALENS_TIMEOUT_SECONDS"}

\* The environment with nothing set; the specifications that begin with a
\* configuration already built carry it.
NoEnv == [n \in EnvNames |-> Unset]

DEFAULT_BASE_URL ==
    <<"h", "t", "t", "p", "s", ":", "/", "/", "a", "p", "i", ".", "d", "a", "t", "a",
      "l", "e", "n", "s", ".", "t", "e", "c", "h">>
DEFAULT_API_VERSION == <<"0">>

\* env::var(name).ok().map(|v| v.trim().to_owned()).filter(|v| !v.is_empty())
env_non_empty(e, name) ==
    IF ~e[name].present \/ ~e[name].unicode THEN None
    ELSE IF Trim(e[name].v) = <<>> THEN None
    ELSE Some(Trim(e[name].v))

\* Option::or_else
or_else(a, b) == IF a.some THEN a ELSE b

\* Option::unwrap_or_else
unwrap_or_else(a, d) == IF a.some THEN a.v ELSE d

\* u64::MAX.  The model's u64 is U64Bits wide: the integers of the checker
\* are narrower than 64 bits.
U64_MAX == 2 ^ U64Bits - 1

\* The digits of an unsigned decimal, most significant first, with the
\* overflow check of checked_mul and checked_add.
RECURSIVE ParseDigits(_, _)
ParseDigits(ds, acc) ==
    IF ds = <<>> THEN [ok |-> TRUE, v |-> acc, err |-> ""]
    ELSE IF ds[1] \notin Digits THEN [ok |-> FALSE, v |-> 0, err |-> "InvalidDigit"]
    ELSE IF acc * 10 + DigitVal(ds[1]) > U64_MAX
    THEN [ok |-> FALSE, v |-> 0, err |-> "PosOverflow"]
    ELSE ParseDigits(Tail(ds), acc * 10 + DigitVal(ds[1]))

\* str::parse::<u64>: an optional + and then digits only; no sign alone,
\* no minus, no blank inside.
parse_u64(raw) ==
    IF raw = <<>> THEN [ok |-> FALSE, v |-> 0, err |-> "Empty"]
    ELSE IF raw \in {<<"+">>, <<"-">>} THEN [ok |-> FALSE, v |-> 0, err |-> "InvalidDigit"]
    ELSE IF raw[1] = "+" THEN ParseDigits(Tail(raw), 0)
    ELSE ParseDigits(raw, 0)

\* A timeout parser that takes every integer, zero too.
parse_timeout_seconds_ZeroTaken(e) ==
    LET raw == env_non_empty(e, "DATALENS_TIMEOUT_SECONDS")
    IN  IF ~raw.some THEN DEFAULT_TIMEOUT_SECONDS
        ELSE IF parse_u64(raw.v).ok THEN parse_u64(raw.v).v
        ELSE DEFAULT_TIMEOUT_SECONDS

parse_timeout_seconds(e) ==
    LET raw == env_non_empty(e, "DATALENS_TIMEOUT_SECONDS")
    IN  IF ~raw.some THEN DEFAULT_TIMEOUT_SECONDS
        ELSE IF parse_u64(raw.v).ok /\ parse_u64(raw.v).v > 0 THEN parse_u64(raw.v).v
        ELSE DEFAULT_TIMEOUT_SECONDS

\* A credential taken from YC_IAM_TOKEN before DATALENS_IAM_TOKEN.
subject_token_from_env_YcFirst(e) ==
    or_else(env_non_empty(e, "YC_IAM_TOKEN"),
            or_else(env_non_empty(e, "DATALENS_IAM_TOKEN"),
                    env_non_empty(e, "DATALENS_SUBJECT_TOKEN")))

\* env_non_empty("DATALENS_IAM_TOKEN").or_else(|| env_non_empty("YC_IAM_TOKEN"))
\*     .or_else(|| env_non_empty("DATALENS_SUBJECT_TOKEN"))
subject_token_from_env(e) ==
    or_else(env_non_empty(e, "DATALENS_IAM_TOKEN"),
            or_else(env_non_empty(e, "YC_IAM_TOKEN"),
                    env_non_empty(e, "DATALENS_SUBJECT_TOKEN")))

\* AppConfig::from_env
from_env(e) ==
    [base_url |-> unwrap_or_else(env_non_empty(e, "DATALENS_BASE_URL"), DEFAULT_BASE_URL),
     api_version |->
        unwrap_or_else(env_non_empty(e, "DATALENS_API_VERSION"), DEFAULT_API_VERSION),
     org_id |-> env_non_empty(e, "DATALENS_ORG_ID"),
     subject_token |-> subject_token_from_env(e),
     timeout |-> parse_timeout_seconds(e)]

\* No configuration: main has not called from_env yet.
NoConfig ==
    [base_url |-> <<>>, api_version |-> <<>>, org_id |-> None,
     subject_token |-> None, timeout |-> 0]

\* The texts DATALENS_TIMEOUT_SECONDS may hold.
TimeoutAlphabet == {"0", "3", "4", "6", "+", "-", " ", "x"}
TimeoutTexts == UNION {[1..n -> TimeoutAlphabet] : n \in 0..MaxEnvLen}

\* What a credential variable may hold: nothing, blanks, a token (c), a
\* token with blanks around it.
TokenValues(c) ==
    {Unset, NotUnicode, SetTo(<<>>), SetTo(<<" ", "nbsp">>), SetTo(<<c>>),
     SetTo(<<" ", c, "\n">>)}

\* The environments main may start with.
StartupEnvs ==
    {[NoEnv EXCEPT !["DATALENS_TIMEOUT_SECONDS"] = t] :
        t \in {Unset, NotUnicode} \cup {SetTo(text) : text \in TimeoutTexts}}
    \cup {[NoEnv EXCEPT !["DATALENS_IAM_TOKEN"] = a, !["YC_IAM_TOKEN"] = b,
                        !["DATALENS_SUBJECT_TOKEN"] = c, !["DATALENS_ORG_ID"] = o,
                        !["DATALENS_BASE_URL"] = u] :
            a \in TokenValues("i"), b \in TokenValues("y"), c \in TokenValues("s"),
            o \in {Unset, SetTo(TextOrg)},
            u \in {Unset, SetTo(<<" ">> \o BaseUrl)}}

----------------------------------------------------------------------------
(* The gateway: each invocation runs a tool call.  A call that gets past   *)
(* the checks sends its request and awaits the response; the send may fail *)
(* (timeout, connect), the status arrives with the headers, and the body   *)
(* is read, or the read fails, before the response is classified.          *)

\* No argument struct: what Deserialize gives when it fails.
NoStruct == [ok |-> FALSE, err |-> "", slots |-> EmptyMap, extra |-> EmptyMap]

\* A call is the tool, the arguments object the host delivered (empty when
\* the handler is called with a struct), the struct the handler received
\* and the method it passed to call_rpc.
NoCall == [tool |-> "", arguments |-> EmptyMap, args |-> NoStruct, method |-> ""]
NoResponse == [status |-> 0, read |-> FALSE, body |-> <<>>]

InitWith(configs) ==
    /\ cfg \in configs
    /\ pc = [i \in Invocations |-> "idle"]
    /\ call = [i \in Invocations |-> NoCall]
    /\ sent = [i \in Invocations |-> <<>>]
    /\ resp = [i \in Invocations |-> NoResponse]
    /\ outcome = [i \in Invocations |-> NoOutcome]
    /\ t_pc = "off"
    /\ t_input = <<>>
    /\ t_max = 0
    /\ t_end = 0
    /\ t_out = <<>>
    /\ env = NoEnv
    /\ boot = "serving"

\* A call that ran to its first await: it returned, or its request is out.
Started(i, r) ==
    IF r.outcome /= NoOutcome
    THEN /\ outcome' = [outcome EXCEPT ![i] = r.outcome]
         /\ pc' = [pc EXCEPT ![i] = "done"]
         /\ sent' = sent
    ELSE /\ sent' = [sent EXCEPT ![i] = Append(@, r.request)]
         /\ pc' = [pc EXCEPT ![i] = "sending"]
         /\ outcome' = outcome

\* The host delivers (tool, arguments); the handler runs to its first await.
Invoke(i, calls) ==
    /\ pc[i] = "idle"
    /\ \E c \in calls :
            LET r == ToolCall(c[1], c[2])
                args == Deserialize(ToolShape(c[1]), c[2])
            IN  /\ call' = [call EXCEPT ![i] =
                              [tool |-> c[1], arguments |-> c[2],
                               args |-> args,
                               method |-> r.method]]
                /\ Started(i, r)
    /\ UNCHANGED <<cfg, resp>>
    /\ UNCHANGED truncVars
    /\ UNCHANGED bootVars

\* A caller inside the program calls a typed handler with a struct it built.
InvokeHandler(i) ==
    /\ pc[i] = "idle"
    /\ \E tool \in TypedToolNames :
         \E args \in HandlerStructs(tool) :
            LET r == HandlerCall(tool, args)
            IN  /\ call' = [call EXCEPT ![i] =
                              [tool |-> tool, arguments |-> EmptyMap,
                               args |-> args, method |-> r.method]]
                /\ Started(i, r)
    /\ UNCHANGED <<cfg, resp>>
    /\ UNCHANGED truncVars
    /\ UNCHANGED bootVars

\* A send failure after which the request is sent again.
SendFails_Retries(i) ==
    /\ pc[i] = "sending"
    /\ sent' = [sent EXCEPT ![i] = Append(@, @[1])]
    /\ UNCHANGED <<cfg, call, resp, outcome, pc>>
    /\ UNCHANGED truncVars
    /\ UNCHANGED bootVars

\* .send().await fails.
SendFails(i) ==
    /\ pc[i] = "sending"
    /\ \E cause \in TransportCauses :
         outcome' = [outcome EXCEPT ![i] = send_error(call[i].method, cause)]
    /\ pc' = [pc EXCEPT ![i] = "done"]
    /\ UNCHANGED <<cfg, call, sent, resp>>
    /\ UNCHANGED truncVars
    /\ UNCHANGED bootVars

\* .send().await returns the response: its status is known.
ReceiveStatus(i, statuses) ==
    /\ pc[i] = "sending"
    /\ \E status \in statuses :
         resp' = [resp EXCEPT ![i] = [status |-> status, read |-> FALSE, body |-> <<>>]]
    /\ pc' = [pc EXCEPT ![i] = "reading"]
    /\ UNCHANGED <<cfg, call, sent, outcome>>
    /\ UNCHANGED truncVars
    /\ UNCHANGED bootVars

\* response.text().await fails.
ReadFails(i) ==
    /\ pc[i] = "reading"
    /\ \E cause \in TransportCauses :
         outcome' = [outcome EXCEPT ![i] = read_error(cause)]
    /\ pc' = [pc EXCEPT ![i] = "done"]
    /\ UNCHANGED <<cfg, call, sent, resp>>
    /\ UNCHANGED truncVars
    /\ UNCHANGED bootVars

\* A body classified with the status of whichever response was last
\* received, as if the status were kept in one place for all invocations.
ReadBody_SharedStatus(i, bodies) ==
    /\ pc[i] = "reading"
    /\ \E body \in bodies :
         \E j \in Invocations :
            /\ resp[j].status /= 0
            /\ resp' = [resp EXCEPT ![i].read = TRUE, ![i].body = body]
            /\ outcome' = [outcome EXCEPT ![i] =
                              classify_response(call[i].method, resp[j].status, body)]
    /\ pc' = [pc EXCEPT ![i] = "done"]
    /\ UNCHANGED <<cfg, call, sent>>
    /\ UNCHANGED truncVars
    /\ UNCHANGED bootVars

\* response.text().await returns the body, and the response is classified.
ReadBody(i, bodies) ==
    /\ pc[i] = "reading"
    /\ \E body \in bodies :
         /\ resp' = [resp EXCEPT ![i].read = TRUE, ![i].body = body]
         /\ outcome' = [outcome EXCEPT ![i] =
                           classify_response(call[i].method, resp[i].status, body)]
    /\ pc' = [pc EXCEPT ![i] = "done"]
    /\ UNCHANGED <<cfg, call, sent>>
    /\ UNCHANGED truncVars
    /\ UNCHANGED bootVars

\* The result goes back to the host; the invocation's locals are dropped.
Return(i) ==
    /\ pc[i] = "done"
    /\ pc' = [pc EXCEPT ![i] = "idle"]
    /\ call' = [call EXCEPT ![i] = NoCall]
    /\ sent' = [sent EXCEPT ![i] = <<>>]
    /\ resp' = [resp EXCEPT ![i] = NoResponse]
    /\ outcome' = [outcome EXCEPT ![i] = NoOutcome]
    /\ UNCHANGED cfg
    /\ UNCHANGED truncVars
    /\ UNCHANGED bootVars

\* The gateway with every tool and arguments object.
Init == InitWith(GatewayConfigs)

Next ==
    \E i \in SingleCaller :
        \/ Invoke(i, GatewayCalls)
        \/ SendFails(i)
        \/ ReceiveStatus(i, GatewayStatuses)
        \/ ReadFails(i)
        \/ ReadBody(i, GatewayBodies)
        \/ Return(i)

Spec == Init /\ [][Next]_vars

\* tests::test_config
test_config ==
    [base_url |-> BaseUrl,
     api_version |-> <<"0">>,
     org_id |-> Some(TextOrg),
     subject_token |-> Some(TextAbc),
     timeout |-> DEFAULT_TIMEOUT_SECONDS]

\* The typed handlers called with structs, as the unit tests call them, next
\* to the tools called with arguments objects.
HandlerConfigs == {test_config, [test_config EXCEPT !.org_id = None]}

InitHandler == InitWith(HandlerConfigs)

NextHandler ==
    \E i \in SingleCaller :
        \/ Invoke(i, GatewayCalls)
        \/ InvokeHandler(i)
        \/ SendFails(i)
        \/ ReceiveStatus(i, {200})
        \/ ReadFails(i)
        \/ ReadBody(i, {BodyEntries})
        \/ Return(i)

SpecHandler == InitHandler /\ [][NextHandler]_vars

\* The call engine with every configuration, status and body.
InitEngine == InitWith(EngineConfigs)

NextEngine ==
    \E i \in SingleCaller :
        \/ Invoke(i, EngineCalls)
        \/ SendFails(i)
        \/ ReceiveStatus(i, EngineStatuses)
        \/ ReadFails(i)
        \/ ReadBody(i, EngineBodies)
        \/ Return(i)

SpecEngine == InitEngine /\ [][NextEngine]_vars

\* Two invocations in flight at once: a few calls of each kind (fast
\* failures, the listing, calls that reach the remote API), interleaved in
\* every order.
ConcurrentCalls ==
    {<<"datalens_list_methods", EmptyMap>>,
     <<"datalens_get_dataset", EmptyMap>>,
     <<"datalens_get_dataset", [datasetId |-> JStr("v")]>>,
     <<"datalens_rpc", [method |-> JStr("listDirectory"),
                        payload |-> JObj([path |-> JStr("/")])]>>,
     <<"datalens_rpc", [method |-> JStr("listDirectory"),
                        payload |-> JArr(<<JStr("not-an-object")>>)]>>}

InitConcurrent == InitWith(HandlerConfigs)

NextConcurrent ==
    \E i \in Invocations :
        \/ Invoke(i, ConcurrentCalls)
        \/ SendFails(i)
        \/ ReceiveStatus(i, GatewayStatuses)
        \/ ReadFails(i)
        \/ ReadBody(i, {BodyEntries, BodyOops})
        \/ Return(i)

SpecConcurrent == InitConcurrent /\ [][NextConcurrent]_vars

\* Startup and the first calls: main reads the environment, builds the
\* server and serves.
StartupCalls ==
    {<<"datalens_list_directory", EmptyMap>>, <<"datalens_list_methods", EmptyMap>>}

InitStartup ==
    /\ cfg = NoConfig
    /\ pc = [i \in Invocations |-> "idle"]
    /\ call = [i \in Invocations |-> NoCall]
    /\ sent = [i \in Invocations |-> <<>>]
    /\ resp = [i \in Invocations |-> NoResponse]
    /\ outcome = [i \in Invocations |-> NoOutcome]
    /\ t_pc = "off"
    /\ t_input = <<>>
    /\ t_max = 0
    /\ t_end = 0
    /\ t_out = <<>>
    /\ env \in StartupEnvs
    /\ boot = "main"

\* let cfg = AppConfig::from_env();
FromEnv ==
    /\ boot = "main"
    /\ cfg' = from_env(env)
    /\ boot' = "configured"
    /\ UNCHANGED <<pc, call, sent, resp, outcome, env>>
    /\ UNCHANGED truncVars

\* DataLensServer::new(cfg) builds the HTTP client with the timeout, and
\* server.serve(stdio()) starts serving.
NewServer ==
    /\ boot = "configured"
    /\ boot' = "serving"
    /\ UNCHANGED <<cfg, pc, call, sent, resp, outcome, env>>
    /\ UNCHANGED truncVars

NextStartup ==
    \/ FromEnv
    \/ NewServer
    \/ \E i \in SingleCaller :
          \/ boot = "serving" /\ Invoke(i, StartupCalls)
          \/ SendFails(i)
          \/ Return(i)

SpecStartup == InitStartup /\ [][NextStartup]_vars

----------------------------------------------------------------------------
(* truncate_utf8 step by step, on every short text and cutoff.             *)

TruncAlphabet == {"a", "e_acute", "euro", "smiley"}

TruncInputs == UNION {[1..n -> TruncAlphabet] : n \in 0..MaxTruncLen}

InitTrunc ==
    /\ cfg = test_config
    /\ pc = [i \in Invocations |-> "idle"]
    /\ call = [i \in Invocations |-> NoCall]
    /\ sent = [i \in Invocations |-> <<>>]
    /\ resp = [i \in Invocations |-> NoResponse]
    /\ outcome = [i \in Invocations |-> NoOutcome]
    /\ t_pc = "entry"
    /\ t_input \in TruncInputs
    /\ t_max \in 0..MaxCutoff
    /\ t_end = 0
    /\ t_out = <<>>
    /\ env = NoEnv
    /\ boot = "serving"

\* if input.len() <= max_bytes { return input.to_owned(); }
TruncReturnWhole ==
    /\ t_pc = "entry"
    /\ Len(Bytes(t_input)) <= t_max
    /\ t_out' = Bytes(t_input)
    /\ t_pc' = "returned"
    /\ UNCHANGED <<t_input, t_max, t_end>>
    /\ UNCHANGED callVars
    /\ UNCHANGED bootVars

\* let mut end = max_bytes;
TruncEnter ==
    /\ t_pc = "entry"
    /\ Len(Bytes(t_input)) > t_max
    /\ t_end' = t_max
    /\ t_pc' = "loop"
    /\ UNCHANGED <<t_input, t_max, t_out>>
    /\ UNCHANGED callVars
    /\ UNCHANGED bootVars

\* while !input.is_char_boundary(end) { end -= 1; }: end is a usize, and
\* the subtraction panics below zero.
TruncStep ==
    /\ t_pc = "loop"
    /\ ~is_char_boundary(Bytes(t_input), t_end)
    /\ IF t_end = 0
       THEN t_pc' = "panicked" /\ t_end' = t_end
       ELSE t_pc' = t_pc /\ t_end' = t_end - 1
    /\ UNCHANGED <<t_input, t_max, t_out>>
    /\ UNCHANGED callVars
    /\ UNCHANGED bootVars

\* format!("{}...(truncated)", &input[..end])
TruncReturnCut ==
    /\ t_pc = "loop"
    /\ is_char_boundary(Bytes(t_input), t_end)
    /\ t_out' = SubSeq(Bytes(t_input), 1, t_end) \o Bytes(TruncationMarker)
    /\ t_pc' = "returned"
    /\ UNCHANGED <<t_input, t_max, t_end>>
    /\ UNCHANGED callVars
    /\ UNCHANGED bootVars

NextTrunc ==
    \/ TruncReturnWhole
    \/ TruncEnter
    \/ TruncStep
    \/ TruncReturnCut

SpecTrunc == InitTrunc /\ [][NextTrunc]_vars

\* A running call of truncate_utf8 keeps taking its next step.
SpecTruncFair == SpecTrunc /\ WF_vars(NextTrunc)

----------------------------------------------------------------------------
(* The schema lookup.  The listing is the code's datalens_list_methods;    *)
(* the lookup tool the integration test calls is modelled from the         *)
(* catalog contract: lookup(methodName, caseInsensitive) gives the entry   *)
(* or NotFound, and NotFound points the caller to the catalog listing.     *)

\* The characters of the catalog's method names.
MethodText ==
    [getConnection |-> <<"g", "e", "t", "C", "o", "n", "n", "e", "c", "t", "i", "o", "n">>,
     createConnection |-> <<"c", "r", "e", "a", "t", "e", "C", "o", "n", "n", "e", "c", "t", "i", "o", "n">>,
     updateConnection |-> <<"u", "p", "d", "a", "t", "e", "C", "o", "n", "n", "e", "c", "t", "i", "o", "n">>,
     deleteConnection |-> <<"d", "e", "l", "e", "t", "e", "C", "o", "n", "n", "e", "c", "t", "i", "o", "n">>,
     getDashboard |-> <<"g", "e", "t", "D", "a", "s", "h", "b", "o", "a", "r", "d">>,
     createDashboard |-> <<"c", "r", "e", "a", "t", "e", "D", "a", "s", "h", "b", "o", "a", "r", "d">>,
     updateDashboard |-> <<"u", "p", "d", "a", "t", "e", "D", "a", "s", "h", "b", "o", "a", "r", "d">>,
     deleteDashboard |-> <<"d", "e", "l", "e", "t", "e", "D", "a", "s", "h", "b", "o", "a", "r", "d">>,
     getDataset |-> <<"g", "e", "t", "D", "a", "t", "a", "s", "e", "t">>,
     createDataset |-> <<"c", "r", "e", "a", "t", "e", "D", "a", "t", "a", "s", "e", "t">>,
     updateDataset |-> <<"u", "p", "d", "a", "t", "e", "D", "a", "t", "a", "s", "e", "t">>,
     deleteDataset |-> <<"d", "e", "l", "e", "t", "e", "D", "a", "t", "a", "s", "e", "t">>,
     validateDataset |-> <<"v", "a", "l", "i", "d", "a", "t", "e", "D", "a", "t", "a", "s", "e", "t">>,
     getEntriesRelations |-> <<"g", "e", "t", "E", "n", "t", "r", "i", "e", "s", "R", "e", "l", "a", "t", "i", "o", "n", "s">>,
     getEntries |-> <<"g", "e", "t", "E", "n", "t", "r", "i", "e", "s">>,
     getQLChart |-> <<"g", "e", "t", "Q", "L", "C", "h", "a", "r", "t">>,
     deleteQLChart |-> <<"d", "e", "l", "e", "t", "e", "Q", "L", "C", "h", "a", "r", "t">>,
     getWizardChart |-> <<"g", "e", "t", "W", "i", "z", "a", "r", "d", "C", "h", "a", "r", "t">>,
     deleteWizardChart |-> <<"d", "e", "l", "e", "t", "e", "W", "i", "z", "a", "r", "d", "C", "h", "a", "r", "t">>,
     getEditorChart |-> <<"g", "e", "t", "E", "d", "i", "t", "o", "r", "C", "h", "a", "r", "t">>,
     deleteEditorChart |-> <<"d", "e", "l", "e", "t", "e", "E", "d", "i", "t", "o", "r", "C", "h", "a", "r", "t">>,
     createEditorChart |-> <<"c", "r", "e", "a", "t", "e", "E", "d", "i", "t", "o", "r", "C", "h", "a", "r", "t">>,
     updateEditorChart |-> <<"u", "p", "d", "a", "t", "e", "E", "d", "i", "t", "o", "r", "C", "h", "a", "r", "t">>,
     getEntriesPermissions |-> <<"g", "e", "t", "E", "n", "t", "r", "i", "e", "s", "P", "e", "r", "m", "i", "s", "s", "i", "o", "n", "s">>,
     getAuditEntriesUpdates |-> <<"g", "e", "t", "A", "u", "d", "i", "t", "E", "n", "t", "r", "i", "e", "s", "U", "p", "d", "a", "t", "e", "s">>,
     listDirectory |-> <<"l", "i", "s", "t", "D", "i", "r", "e", "c", "t", "o", "r", "y">>]

LowerLetters == <<"a", "b", "c", "d", "e", "f", "g", "h", "i", "j", "k", "l", "m", "n", "o", "p", "q", "r", "s", "t", "u", "v", "w", "x", "y", "z">>
UpperLetters == <<"A", "B", "C", "D", "E", "F", "G", "H", "I", "J", "K", "L", "M", "N", "O", "P", "Q", "R", "S", "T", "U", "V", "W", "X", "Y", "Z">>

to_ascii_lowercase(c) ==
    IF \E n \in 1..26 : UpperLetters[n] = c
    THEN LowerLetters[CHOOSE n \in 1..26 : UpperLetters[n] = c]
    ELSE c

to_ascii_uppercase(c) ==
    IF \E n \in 1..26 : LowerLetters[n] = c
    THEN UpperLetters[CHOOSE n \in 1..26 : LowerLetters[n] = c]
    ELSE c

ToLower(cs) == [n \in 1..Len(cs) |-> to_ascii_lowercase(cs[n])]
ToUpper(cs) == [n \in 1..Len(cs) |-> to_ascii_uppercase(cs[n])]

TextUnknown == <<"n", "o", "S", "u", "c", "h", "M", "e", "t", "h", "o", "d">>

\* The method names a caller asks the schema of: every catalog name as
\* listed, in lower case and in upper case, and a name of no method.
SchemaSpellings ==
    UNION {{MethodText[m], ToLower(MethodText[m]), ToUpper(MethodText[m])} :
               m \in DOMAIN MethodText}
    \cup {TextUnknown}

\* The characters of a string a caller passes as a method name.
Chars(s) == CHOOSE cs \in SchemaSpellings : Cat(cs) = s

\* lookup(methodName, caseInsensitive) -> MethodCatalogEntry | NotFound
lookup(name) ==
    LET hits == {n \in 1..Len(METHOD_CATALOG) :
                     ToLower(MethodText[METHOD_CATALOG[n].method]) = ToLower(name)}
    IN  IF hits = {} THEN [some |-> FALSE, v |-> METHOD_CATALOG[1]]
        ELSE [some |-> TRUE,
              v |-> METHOD_CATALOG[CHOOSE n \in hits : \A m \in hits : n <= m]]

datalens_get_method_schema(arguments) ==
    LET found == lookup(Chars(arguments["method"].s))
    IN  IF ~found.some
        THEN ErrWith("invalid_params",
                     "unknown method; call datalens_list_methods to see the catalog",
                     JObj([method |-> arguments["method"]]))
        ELSE Ok([method |-> JStr(found.v.method),
                 mcpTool |-> JStr(found.v.tool),
                 category |-> JStr(found.v.category),
                 experimental |-> JBool(found.v.experimental),
                 requestSchema |-> JObj(EmptyMap)])

\* The host calls the catalog listing.
ListMethods(i) == Invoke(i, {<<"datalens_list_methods", EmptyMap>>})

\* The host calls the schema lookup with a method name.
GetMethodSchema(i) ==
    /\ pc[i] = "idle"
    /\ \E cs \in SchemaSpellings :
         LET arguments == [method |-> JStr(Cat(cs))]
         IN  /\ call' = [call EXCEPT ![i] =
                           [tool |-> "datalens_get_method_schema",
                            arguments |-> arguments, args |-> NoStruct,
                            method |-> ""]]
             /\ outcome' = [outcome EXCEPT ![i] = datalens_get_method_schema(arguments)]
    /\ pc' = [pc EXCEPT ![i] = "done"]
    /\ UNCHANGED <<cfg, sent, resp>>
    /\ UNCHANGED truncVars
    /\ UNCHANGED bootVars

InitCatalog == InitWith(GatewayConfigs)

NextCatalog ==
    \E i \in SingleCaller :
        \/ ListMethods(i)
        \/ GetMethodSchema(i)
        \/ Return(i)

SpecCatalog == InitCatalog /\ [][NextCatalog]_vars

----------------------------------------------------------------------------
(* Properties *)

\* A required field of the tool has no key in the arguments, under its name
\* or any alias.
RequiredMissing(tool, arguments) ==
    \E f \in FieldSet(ToolShape(tool)) :
        f.req = "required" /\ f.names \cap DOMAIN arguments = {}

\* The organization id and the credential are set and fit in a header.
ConfigUsable ==
    /\ cfg.org_id.some
    /\ cfg.subject_token.some
    /\ HeaderValueOk(cfg.org_id.v)
    /\ HeaderValueOk(cfg.subject_token.v)

Is2xx(status) == status \in 200..299

\* C1: a tool call whose arguments lack a required field (under its name
\* and all its aliases) fails with an invalid-arguments error, and the
\* invocation has made no HTTP request.
C1_RequiredMissingRejected ==
    \A i \in Invocations :
        (pc[i] /= "idle" /\ RequiredMissing(call[i].tool, call[i].arguments)) =>
            /\ pc[i] = "done"
            /\ ~outcome[i].ok
            /\ outcome[i].code = "invalid_params"
            /\ sent[i] = <<>>

C1_Witness ==
    \E i \in Invocations :
        /\ pc[i] = "done"
        /\ call[i].tool = "datalens_get_dataset"
        /\ DOMAIN call[i].arguments = {"workbookId", "rev_id"}
        /\ cfg.org_id.some /\ cfg.subject_token.some
        /\ outcome[i].code = "invalid_params"
        /\ sent[i] = <<>>

\* C2 as stated: any tool invoked (with arguments that deserialize) while
\* the organization id or the credential is unset ends in a configuration
\* error, with no HTTP request.
C2_AnyToolConfigError ==
    \A i \in Invocations :
        (/\ pc[i] = "done"
         /\ Deserialize(ToolShape(call[i].tool), call[i].arguments).ok
         /\ (~cfg.org_id.some \/ ~cfg.subject_token.some)) =>
            /\ ~outcome[i].ok
            /\ outcome[i].code = "invalid_request"
            /\ sent[i] = <<>>

\* The call passes deserialization and hands call_rpc an object payload.
ReachesConfigChecks(tool, arguments) ==
    /\ tool \in ToolNames \ {"datalens_list_methods"}
    /\ Deserialize(ToolShape(tool), arguments).ok
    /\ is_object(ToolPayload(tool, Deserialize(ToolShape(tool), arguments)))

\* C2, amended: while the organization id or the credential is unset no
\* invocation makes an HTTP request; and a call of any tool but the catalog
\* listing, with arguments that deserialize and an object payload, ends in
\* a configuration error that names DATALENS_ORG_ID when the organization
\* id is unset, and the token variables when only the credential is unset.
C2_ConfigErrorWhenUnset ==
    \A i \in Invocations :
        /\ (~cfg.org_id.some \/ ~cfg.subject_token.some) => sent[i] = <<>>
        /\ (pc[i] /= "idle" /\ ReachesConfigChecks(call[i].tool, call[i].arguments)) =>
              /\ ~cfg.org_id.some =>
                    /\ pc[i] = "done"
                    /\ outcome[i] = Err("invalid_request",
                           "DATALENS_ORG_ID environment variable is required")
              /\ (cfg.org_id.some /\ ~cfg.subject_token.some) =>
                    /\ pc[i] = "done"
                    /\ outcome[i] = Err("invalid_request",
                           "YC_IAM_TOKEN (or DATALENS_IAM_TOKEN) environment variable is required")

C2_Witness ==
    \E i \in Invocations :
        /\ pc[i] = "done"
        /\ call[i].tool = "datalens_get_dataset"
        /\ "datasetId" \in DOMAIN call[i].arguments
        /\ cfg.org_id.some /\ ~cfg.subject_token.some
        /\ outcome[i].code = "invalid_request"
        /\ sent[i] = <<>>

\* C3: a call of call_rpc whose payload is not a JSON object fails, under
\* every configuration and method name, with an invalid-arguments error
\* whose data names the method, and no HTTP request is made.
C3_NonObjectPayloadRejected ==
    \A i \in Invocations :
        (/\ pc[i] /= "idle"
         /\ call[i].tool = "datalens_rpc"
         /\ {"method", "payload"} \subseteq DOMAIN call[i].arguments
         /\ call[i].arguments["payload"].t /= "obj") =>
            /\ pc[i] = "done"
            /\ ~outcome[i].ok
            /\ outcome[i].code = "invalid_params"
            /\ outcome[i].message = "payload must be a JSON object"
            /\ outcome[i].has_data
            /\ outcome[i].data = JObj([method |-> call[i].arguments["method"]])
            /\ sent[i] = <<>>

C3_Witness ==
    \E i \in Invocations :
        /\ pc[i] = "done"
        /\ call[i].tool = "datalens_rpc"
        /\ {"method", "payload"} \subseteq DOMAIN call[i].arguments
        /\ call[i].arguments["payload"].t = "arr"
        /\ call[i].arguments["method"] = JStr("noSuchMethod")
        /\ ConfigUsable
        /\ outcome[i].code = "invalid_params"

\* The detail an upstream error carries for a body: the parsed JSON value,
\* or else the body text cut to the budget.
ExpectedDetail(body) ==
    IF from_str_Value(body).ok
    THEN from_str_Value(body).val
    ELSE IF Len(Bytes(body)) <= ErrorBodyBudget
    THEN JStr(Cat(body))
    ELSE JStr(Cat(FromBytes(truncate_utf8(body, ErrorBodyBudget))))

\* C4: a response with a non-2xx status never yields success; once its
\* body is read the outcome is an error carrying the method, the numeric
\* status and, as detail, the parsed JSON value of the body or else its
\* (truncated) text.  A 500 with body {"error":"boom"} carries that object.
C4_NonSuccessIsUpstreamError ==
    \A i \in Invocations :
        (pc[i] = "done" /\ resp[i].status /= 0 /\ ~Is2xx(resp[i].status)) =>
            /\ ~outcome[i].ok
            /\ resp[i].read =>
                  /\ outcome[i].code = "internal_error"
                  /\ outcome[i].has_data
                  /\ outcome[i].data =
                        JObj([method |-> JStr(call[i].method),
                              status |-> JNum(resp[i].status),
                              response |-> ExpectedDetail(resp[i].body)])
                  /\ resp[i].body = BodyBoom =>
                        outcome[i].data.o["response"] = JObj([error |-> JStr("boom")])
                  /\ resp[i].body = <<>> =>
                        outcome[i].data.o["response"] = JStr("")
                  /\ resp[i].body = BodyLong =>
                        outcome[i].data.o["response"] =
                            JStr(Cat([n \in 1..(ErrorBodyBudget - 1) |-> "x"]
                                     \o TruncationMarker))

C4_Witness ==
    \E i \in Invocations :
        /\ pc[i] = "done"
        /\ call[i].method = "getDataset"
        /\ resp[i].read /\ resp[i].status = 500 /\ resp[i].body = BodyBoom
        /\ outcome[i].data =
              JObj([method |-> JStr("getDataset"), status |-> JNum(500),
                    response |-> JObj([error |-> JStr("boom")])])

\* C5: for a 2xx response, a blank body yields the empty object, and a
\* body that is a JSON object yields exactly that object; a success value
\* is never anything else.
C5_SuccessReturnsDecodedObject ==
    \A i \in Invocations :
        (pc[i] = "done" /\ resp[i].read /\ Is2xx(resp[i].status)) =>
            LET body == resp[i].body
                decoded == from_str_Value(body)
            IN  /\ (\A n \in 1..Len(body) : IsWhitespace(body[n])) =>
                      outcome[i] = Ok(EmptyMap)
                /\ (decoded.ok /\ decoded.val.t = "obj") =>
                      outcome[i] = Ok(decoded.val.o)
                /\ body = BodyEntries =>
                      outcome[i].value = [entries |-> JArr(<<>>)]
                /\ body = BodyBoom =>
                      outcome[i].value = [error |-> JStr("boom")]
                /\ outcome[i].ok =>
                      \/ \A n \in 1..Len(body) : IsWhitespace(body[n])
                      \/ decoded.ok /\ decoded.val = JObj(outcome[i].value)

C5_Witness ==
    \E i \in Invocations :
        /\ pc[i] = "done"
        /\ resp[i].read /\ resp[i].status = 204 /\ resp[i].body = BodyBoom
        /\ outcome[i] = Ok([error |-> JStr("boom")])

\* C6: a 2xx response whose body is not blank and is not a JSON object
\* (invalid JSON, an array, a scalar) yields an error carrying the method
\* and the body text cut to the budget, never a success.
C6_NonObjectBodyIsDecodeError ==
    \A i \in Invocations :
        (pc[i] = "done" /\ resp[i].read /\ Is2xx(resp[i].status)) =>
            LET body == resp[i].body
                decoded == from_str_Value(body)
                blank == \A n \in 1..Len(body) : IsWhitespace(body[n])
            IN  (~blank /\ ~(decoded.ok /\ decoded.val.t = "obj")) =>
                    /\ ~outcome[i].ok
                    /\ outcome[i].code = "internal_error"
                    /\ outcome[i].has_data
                    /\ DOMAIN outcome[i].data.o = {"method", "body"}
                    /\ outcome[i].data.o["method"] = JStr(call[i].method)
                    /\ Len(Bytes(body)) <= ErrorBodyBudget =>
                          outcome[i].data.o["body"] = JStr(Cat(body))
                    /\ body = BodyLong =>
                          outcome[i].data.o["body"] =
                              JStr(Cat([n \in 1..(ErrorBodyBudget - 1) |-> "x"]
                                       \o TruncationMarker))

C6_Witness ==
    \E i \in Invocations :
        /\ pc[i] = "done"
        /\ resp[i].read /\ resp[i].status = 200 /\ resp[i].body = <<"[", "1", "]">>
        /\ ~outcome[i].ok
        /\ outcome[i].data.o["body"] = JStr("[1]")

\* C7: the legacy auth header of a request is the credential, prefixed
\* with "OAuth " unless it starts with exactly that; prefixing the header
\* again changes nothing; "abc" and "OAuth abc" both give "OAuth abc".
C7_LegacyHeaderIdempotent ==
    \A i \in Invocations :
        sent[i] /= <<>> =>
            LET token == cfg.subject_token.v
                header == sent[i][1].headers.x_dl_auth_token
                prefixed == Len(token) >= 6 /\ SubSeq(token, 1, 6) = OAuthPrefix
            IN  /\ header = IF prefixed THEN token ELSE OAuthPrefix \o token
                /\ SubSeq(header, 1, 6) = OAuthPrefix
                /\ legacy_auth_header(header) = header
                /\ token \in {TextAbc, OAuthPrefix \o TextAbc} =>
                      Cat(header) = "OAuth abc"

C7_Witness ==
    \E i \in Invocations :
        /\ sent[i] /= <<>>
        /\ cfg.subject_token.v = OAuthPrefix \o TextAbc
        /\ Cat(sent[i][1].headers.x_dl_auth_token) = "OAuth abc"

\* What truncate_utf8 may return for an input and a cutoff.
TruncateResultOk(input, max_bytes, out) ==
    /\ ValidUtf8(out)
    /\ IF Len(Bytes(input)) <= max_bytes
       THEN out = Bytes(input)
       ELSE \E n \in 0..Len(input) :
               /\ Len(Bytes(SubSeq(input, 1, n))) <= max_bytes
               /\ out = Bytes(SubSeq(input, 1, n) \o TruncationMarker)

\* C8: for every text and cutoff truncate_utf8 returns, without a panic:
\* the input when it has at most cutoff bytes, and otherwise a prefix of
\* the input that ends on a character boundary and has at most cutoff
\* bytes, followed by the marker; the result is a valid string.
C8_TruncateTerminatesValid ==
    /\ [](/\ t_pc /= "panicked"
          /\ t_pc = "loop" => t_end \in 0..t_max
          /\ t_pc = "returned" =>
                /\ TruncateResultOk(t_input, t_max, t_out)
                /\ t_out = truncate_utf8(t_input, t_max))
    /\ <>(t_pc = "returned")

C8_Witness ==
    /\ t_pc = "returned"
    /\ t_input = <<"a", "smiley", "a">>
    /\ t_max = 3
    /\ t_end = 1
    /\ t_out = Bytes(<<"a">> \o TruncationMarker)

\* C9: the list-directory tool called with no arguments makes at most one
\* request; with the organization id and credential configured it makes
\* exactly one, a POST to {base}/rpc/listDirectory whose body is exactly
\* {"path": "/"}; and a 200 response with body {"entries": []} yields the
\* success object {"entries": []}.
C9_ListDirectoryDefault ==
    \A i \in Invocations :
        (call[i].tool = "datalens_list_directory" /\ call[i].arguments = EmptyMap) =>
            /\ Len(sent[i]) <= 1
            /\ ConfigUsable =>
                  /\ Len(sent[i]) = 1
                  /\ sent[i][1].verb = "POST"
                  /\ sent[i][1].url = "http://dl/rpc/listDirectory"
                  /\ sent[i][1].body = JObj([path |-> JStr("/")])
            /\ (/\ pc[i] = "done" /\ resp[i].read
                /\ resp[i].status = 200 /\ resp[i].body = BodyEntries) =>
                  outcome[i] = Ok([entries |-> JArr(<<>>)])

C9_Witness ==
    \E i \in Invocations :
        /\ pc[i] = "done"
        /\ call[i].tool = "datalens_list_directory"
        /\ call[i].arguments = EmptyMap
        /\ cfg.base_url = BaseUrl \o <<"/">>
        /\ Len(sent[i]) = 1
        /\ sent[i][1].body = JObj([path |-> JStr("/")])
        /\ resp[i].status = 200 /\ resp[i].body = BodyEntries
        /\ outcome[i] = Ok([entries |-> JArr(<<>>)])

\* What the canonical request should hold for a string given where a JSON
\* value is expected.
CanonicalOfString(t) ==
    IF StartsWith(Trim(t), <<"{">>) \/ StartsWith(Trim(t), <<"[">>)
    THEN from_str_Value(t).val
    ELSE JStr(Cat(t))

\* C10: when a string-or-JSON field (the generic tool's payload, a typed
\* tool's data, dataset or entry) is given as a string, the request holds
\* the parsed JSON value if the trimmed string starts with { or [, and the
\* string itself otherwise.
C10_JsonStringsParsed ==
    \A i \in Invocations :
        (/\ pc[i] /= "idle"
         /\ ConfigUsable
         /\ Deserialize(ToolShape(call[i].tool), call[i].arguments).ok) =>
            \A k \in DOMAIN call[i].arguments \cap StringOrJsonSlots
                     \cap KnownNames(ToolShape(call[i].tool)) :
                \A t \in JsonStrings :
                    call[i].arguments[k] = JStr(Cat(t)) =>
                        IF call[i].tool = "datalens_rpc"
                        THEN is_object(CanonicalOfString(t)) =>
                                /\ sent[i] /= <<>>
                                /\ sent[i][1].body = CanonicalOfString(t)
                        ELSE /\ sent[i] /= <<>>
                             /\ sent[i][1].body.o[k] = CanonicalOfString(t)

\* The value an object holds under a key, or None.
Get(map, k) == IF k \in DOMAIN map THEN Some(map[k]) ELSE None

\* The keys under which an entry tells how to invoke its method.
HintKeys == {"invokeWith", "typedTool", "mcpTool"}

\* The entries the catalog listing returns.
ListedEntries == datalens_list_methods.value["methods"].a

\* A schema answer matches a listed entry: same method name, same hints.
SchemaMatches(answer, entry) ==
    /\ answer.ok
    /\ answer.value["method"] = entry.o["method"]
    /\ \A k \in HintKeys : Get(answer.value, k) = Get(entry.o, k)

ToolInserts(tool) ==
    IF TypedTools[tool].builder = "build_get_chart_payload"
    THEN GetChartInserts ELSE TypedTools[tool].inserts

\* C12: the request of a typed tool holds every extra key with the value
\* the caller gave, also when the key is one the handler inserts for a
\* typed field (the extra value then replaces the typed one); a typed
\* field whose key is not among the extra keys keeps its typed value, and
\* the request holds no other key.
C12_ExtraMergedLast ==
    \A i \in Invocations :
        (sent[i] /= <<>> /\ call[i].tool \in TypedToolNames) =>
            LET body == sent[i][1].body.o
                args == call[i].args
                inserts == ToolInserts(call[i].tool)
                typed == {n \in 1..Len(inserts) : inserts[n][1] \in DOMAIN args.slots}
            IN  /\ sent[i][1].body.t = "obj"
                /\ \A k \in DOMAIN args.extra :
                      k \in DOMAIN body /\ body[k] = args.extra[k]
                /\ \A k \in DOMAIN call[i].arguments
                            \ KnownNames(ToolShape(call[i].tool)) :
                      k \in DOMAIN body /\ body[k] = call[i].arguments[k]
                /\ \A n \in typed :
                      inserts[n][2] \notin DOMAIN args.extra =>
                          /\ inserts[n][2] \in DOMAIN body
                          /\ body[inserts[n][2]] = args.slots[inserts[n][1]]
                /\ DOMAIN body =
                      DOMAIN args.extra \cup {inserts[n][2] : n \in typed}

C12_Witness ==
    \E i \in Invocations :
        /\ sent[i] /= <<>>
        /\ call[i].tool = "datalens_get_dataset"
        /\ call[i].args.slots = [dataset_id |-> JStr("v"), rev_id |-> JStr("v")]
        /\ call[i].args.extra = [datasetId |-> JStr("from-extra")]
        /\ sent[i][1].body = JObj([datasetId |-> JStr("from-extra"),
                                   rev_id |-> JStr("v")])

\* C13: in the request of a typed tool, an optional typed field that the
\* arguments do not supply (under its name or any alias) has no key: the
\* key is left out, and no key of the request holds null in its place.
C13_AbsentOptionalOmitted ==
    \A i \in Invocations :
        (sent[i] /= <<>> /\ call[i].tool \in TypedToolNames) =>
            LET body == sent[i][1].body.o
                arguments == call[i].arguments
                inserts == ToolInserts(call[i].tool)
            IN  \A f \in FieldSet(ToolShape(call[i].tool)) :
                    (f.req = "optional" /\ Supplied(f, arguments) = {}) =>
                        \A n \in 1..Len(inserts) :
                            inserts[n][1] = f.slot =>
                                /\ inserts[n][2] \notin DOMAIN body
                                /\ \A k \in DOMAIN body \ DOMAIN arguments :
                                       body[k].t /= "null"

C13_Witness ==
    \E i \in Invocations :
        /\ sent[i] /= <<>>
        /\ call[i].tool = "datalens_get_entries"
        /\ call[i].arguments = [scope |-> JStr("v")]
        /\ sent[i][1].body = JObj([scope |-> JStr("v")])

\* C14: when the arguments of the update-dataset or validate-dataset tool
\* have no data field, the request sent holds the key data with the empty
\* object as its value.
C14_DataDefaultsToEmptyObject ==
    \A i \in Invocations :
        (/\ sent[i] /= <<>>
         /\ call[i].tool \in {"datalens_update_dataset", "datalens_validate_dataset"}
         /\ "data" \notin DOMAIN call[i].arguments) =>
            /\ "data" \in DOMAIN sent[i][1].body.o
            /\ sent[i][1].body.o["data"] = JObj(EmptyMap)

\* The arguments with the value under key k moved to key k2.
Rename(arguments, k, k2) ==
    [x \in (DOMAIN arguments \ {k}) \cup {k2} |->
        IF x = k2 THEN arguments[k] ELSE arguments[x]]

\* C15: a value supplied under any name of a typed field (its own name or
\* an alias) lands in that field, and the request is the same, key for key
\* and value for value, as the request built when the value is supplied
\* under any other name of the field; includePermissionsInfo of the
\* get-dashboard tool lands in include_permissions.
C15_AliasesEquivalent ==
    \A i \in Invocations :
        (sent[i] /= <<>> /\ call[i].tool \in TypedToolNames) =>
            LET tool == call[i].tool
                arguments == call[i].arguments
            IN  /\ \A f \in FieldSet(ToolShape(tool)) :
                      \A k \in f.names \cap DOMAIN arguments :
                          /\ f.slot \in DOMAIN call[i].args.slots
                          /\ call[i].args.slots[f.slot] = arguments[k]
                          /\ \A k2 \in f.names \ DOMAIN arguments :
                                ToolCall(tool, Rename(arguments, k, k2)).request
                                    = sent[i][1]
                /\ (/\ tool = "datalens_get_dashboard"
                    /\ "includePermissionsInfo" \in DOMAIN arguments) =>
                      /\ "include_permissions" \in DOMAIN call[i].args.slots
                      /\ call[i].args.slots["include_permissions"]
                            = arguments["includePermissionsInfo"]
                      /\ DOMAIN sent[i][1].body.o \cap
                            {"includePermissions", "includePermissionsInfo"}
                               = {"includePermissions"}
                      /\ sent[i][1].body.o["includePermissions"]
                            = arguments["includePermissionsInfo"]

C15_Witness ==
    \E i \in Invocations :
        /\ sent[i] /= <<>>
        /\ call[i].tool = "datalens_get_dashboard"
        /\ call[i].arguments = [dashboardId |-> JStr("v"),
                                includePermissionsInfo |-> JBool(TRUE)]
        /\ sent[i][1].body = JObj([dashboardId |-> JStr("v"),
                                   includePermissions |-> JBool(TRUE)])

\* The request body the calls of the call engine should carry.
ExpectedBody(tool, arguments) ==
    CASE tool = "datalens_rpc" ->
            IF "payload" \in DOMAIN arguments
            THEN arguments["payload"] ELSE JObj(EmptyMap)
      [] tool = "datalens_list_directory" /\ arguments = EmptyMap ->
            JObj([path |-> JStr("/")])
      [] OTHER -> JObj(arguments)

\* C16: every request sent is a POST to the base URL without its trailing
\* slash followed by /rpc/{method}; its body is the canonical request; it
\* carries Accept and Content-Type application/json, the API version, the
\* organization id, the credential and the legacy auth header; a base URL
\* with and without a trailing slash give the same URL.
C16_RequestShape ==
    \A i \in Invocations :
        sent[i] /= <<>> =>
            LET r == sent[i][1]
            IN  /\ Len(sent[i]) = 1
                /\ r.verb = "POST"
                /\ cfg.base_url \in {BaseUrl, BaseUrl \o <<"/">>}
                /\ r.url = "http://dl/rpc/" \o call[i].method
                /\ call[i].tool = "datalens_rpc" =>
                      JStr(call[i].method) = call[i].arguments["method"]
                /\ r.body = ExpectedBody(call[i].tool, call[i].arguments)
                /\ r.body.t = "obj"
                /\ DOMAIN r.headers =
                      {"accept", "content_type", "x_dl_api_version", "x_dl_org_id",
                       "x_yacloud_subjecttoken", "x_dl_auth_token"}
                /\ r.headers.accept = ApplicationJson
                /\ r.headers.content_type = ApplicationJson
                /\ r.headers.x_dl_api_version = cfg.api_version
                /\ cfg.org_id.some /\ r.headers.x_dl_org_id = cfg.org_id.v
                /\ cfg.subject_token.some
                /\ r.headers.x_yacloud_subjecttoken = cfg.subject_token.v
                /\ r.headers.x_dl_auth_token
                      \in {cfg.subject_token.v, OAuthPrefix \o cfg.subject_token.v}

C16_Witness ==
    \E i \in Invocations :
        /\ sent[i] /= <<>>
        /\ cfg.base_url = BaseUrl \o <<"/">>
        /\ call[i].tool = "datalens_rpc"
        /\ call[i].arguments = [method |-> JStr("getDataset"),
                                payload |-> JObj([path |-> JStr("/")])]
        /\ sent[i][1].url = "http://dl/rpc/getDataset"
        /\ sent[i][1].body = JObj([path |-> JStr("/")])

\* C17: every error outcome of an invocation that reached call_rpc
\* (configuration, invalid arguments, transport, response read, upstream,
\* decode) is an error value that carries the method name.
C17_ErrorsNameMethod ==
    \A i \in Invocations :
        (pc[i] = "done" /\ ~outcome[i].ok /\ call[i].method /= "") =>
            /\ outcome[i].code /= ""
            /\ outcome[i].has_data
            /\ outcome[i].data.t = "obj"
            /\ "method" \in DOMAIN outcome[i].data.o
            /\ outcome[i].data.o["method"] = JStr(call[i].method)

\* The request of the invocation failed in transport: while it was sent,
\* or while the body of the response was read.
TransportFailed(i) ==
    /\ pc[i] = "done"
    /\ sent[i] /= <<>>
    /\ ~resp[i].read

\* C18: a timeout or another transport failure of the request, while it is
\* sent or while the response body is read, yields an error outcome that
\* carries the method name and the text of the cause, never a success.
C18_TransportErrorNamesMethod ==
    \A i \in Invocations :
        TransportFailed(i) =>
            /\ ~outcome[i].ok
            /\ outcome[i].code = "internal_error"
            /\ \E cause \in TransportCauses :
                  outcome[i].message \in
                      {"failed to reach DataLens API: " \o cause,
                       "failed to read response: " \o cause}
            /\ outcome[i].has_data
            /\ outcome[i].data = JObj([method |-> JStr(call[i].method)])

\* C19: an invocation sends at most one request: once its request is out
\* no step adds another, whatever follows (a transport failure, a non-2xx
\* status, a decode failure), and once it has its outcome the outcome is
\* kept as it is until the invocation returns.
C19_AtMostOneRequest ==
    /\ [](\A i \in Invocations : Len(sent[i]) <= 1)
    /\ [][\A i \in Invocations :
            /\ sent[i] /= <<>> =>
                  \/ sent'[i] = sent[i]
                  \/ pc[i] = "done" /\ pc'[i] = "idle" /\ sent'[i] = <<>>
            /\ pc[i] = "done" =>
                  \/ pc'[i] = "done" /\ outcome'[i] = outcome[i]
                  \/ pc'[i] = "idle"]_vars

C19_Witness ==
    \E i \in Invocations :
        /\ pc[i] = "done"
        /\ resp[i].read /\ resp[i].status = 500
        /\ ~outcome[i].ok
        /\ Len(sent[i]) = 1

\* The tools that fetch one chart.
GetChartTools ==
    {"datalens_get_ql_chart", "datalens_get_wizard_chart", "datalens_get_editor_chart"}

\* The request holds the field under the key, with the field's value,
\* unless the caller's extra bag has that key.
SentUnder(i, slot, key) ==
    (slot \in DOMAIN call[i].args.slots /\ key \notin DOMAIN call[i].args.extra) =>
        /\ key \in DOMAIN sent[i][1].body.o
        /\ sent[i][1].body.o[key] = call[i].args.slots[slot]

\* C20: the get-dataset tool sends the dataset id under datasetId, the
\* workbook id under workbookId and the revision under rev_id, never under
\* revId; the get-connection tool sends the revision under rev_id too; the
\* get-dashboard and get-chart tools send it under revId, never rev_id.
C20_RevisionKeys ==
    \A i \in Invocations :
        sent[i] /= <<>> =>
            LET tool == call[i].tool
                body == sent[i][1].body.o
                arguments == call[i].arguments
                given == {"rev_id", "revId"} \cap DOMAIN arguments
            IN  /\ tool = "datalens_get_dataset" =>
                      /\ SentUnder(i, "dataset_id", "datasetId")
                      /\ SentUnder(i, "workbook_id", "workbookId")
                      /\ SentUnder(i, "rev_id", "rev_id")
                      /\ "revId" \notin DOMAIN body
                      /\ \A k \in given : body["rev_id"] = arguments[k]
                /\ tool = "datalens_get_connection" =>
                      /\ SentUnder(i, "rev_id", "rev_id")
                      /\ "revId" \notin DOMAIN body
                      /\ \A k \in given : body["rev_id"] = arguments[k]
                /\ tool \in {"datalens_get_dashboard"} \cup GetChartTools =>
                      /\ SentUnder(i, "rev_id", "revId")
                      /\ "rev_id" \in DOMAIN body => "rev_id" \in DOMAIN call[i].args.extra
                      /\ \A k \in given : body["revId"] = arguments[k]

C20_Witness ==
    \E i \in Invocations :
        /\ sent[i] /= <<>>
        /\ call[i].tool = "datalens_get_dataset"
        /\ DOMAIN call[i].args.slots = {"dataset_id", "workbook_id", "rev_id"}
        /\ call[i].args.extra = EmptyMap
        /\ sent[i][1].url = "http://dl/rpc/getDataset"
        /\ sent[i][1].body = JObj([datasetId |-> JStr("v"), workbookId |-> JStr("v"),
                                   rev_id |-> JStr("v")])

----------------------------------------------------------------------------
\* The arguments fill some field of the tool's shape under two of its
\* names, and nothing else about them fails deserialization.
BothNamesGiven(tool, arguments) ==
    LET shape == ToolShape(tool)
    IN  /\ \E f \in FieldSet(shape) :
              Cardinality(f.names \cap DOMAIN arguments) > 1
        /\ \A f \in FieldSet(shape) :
              /\ f.req = "required" => f.names \cap DOMAIN arguments /= {}
              /\ \A k \in f.names \cap DOMAIN arguments :
                    \/ TypeOk(f.kind, arguments[k])
                    \/ f.req = "optional" /\ arguments[k].t = "null"

\* C21: when the arguments give a field under its canonical name and under
\* one of its aliases (dataset_id and datasetId, say), the tool accepts
\* them and goes on to build the request: the arguments deserialize and the
\* outcome is not the deserialization error.
C21_BothNamesAccepted ==
    \A i \in Invocations :
        (/\ pc[i] /= "idle"
         /\ call[i].tool \in TypedToolNames
         /\ call[i].arguments /= EmptyMap
         /\ BothNamesGiven(call[i].tool, call[i].arguments)) =>
            /\ call[i].args.ok
            /\ outcome[i] /= deserialize_error

----------------------------------------------------------------------------
\* The size of what a JSON value holds: the characters of its strings and
\* keys and one for every other scalar.  For text of single-byte characters
\* it is no more than the bytes of the serialized value.
RECURSIVE JsonSize(_)
RECURSIVE JsonSizeOfKeys(_, _)
JsonSize(v) ==
    CASE v.t = "str" -> Len(v.s)
      [] v.t = "arr" ->
            IF v.a = <<>> THEN 0
            ELSE JsonSize(v.a[1]) + JsonSize(JArr(Tail(v.a)))
      [] v.t = "obj" -> JsonSizeOfKeys(v.o, DOMAIN v.o)
      [] OTHER -> 1

JsonSizeOfKeys(map, keys) ==
    IF keys = {} THEN 0
    ELSE LET k == CHOOSE x \in keys : TRUE
         IN  Len(k) + JsonSize(map[k]) + JsonSizeOfKeys(map, keys \ {k})

\* The keys of an error's data whose value is taken from the response body.
BodyDetailKeys == {"response", "body"}

\* C22: every detail that an upstream error or a decode error takes from
\* the response body is no longer than the byte budget (2000) plus the
\* truncation marker, whatever the length of the body.
C22_DiagnosticsBounded ==
    \A i \in Invocations :
        (resp[i].read /\ ~outcome[i].ok /\ outcome[i].has_data) =>
            \A k \in BodyDetailKeys \cap DOMAIN outcome[i].data.o :
                JsonSize(outcome[i].data.o[k])
                    <= ErrorBodyBudget + Len(TruncationMarker)

----------------------------------------------------------------------------
\* A method name compared without regard to letter case; a name whose
\* characters the model does not hold compares as itself.
FoldedName(method) ==
    IF method \in DOMAIN MethodText THEN Cat(ToLower(MethodText[method]))
    ELSE method

\* C23: no two entries of the method catalog have the same method name
\* compared case-insensitively, and no two have the same tool name (the
\* names are as many as the entries); the same holds of the entries the
\* listing returns.
C23_CatalogNamesUnique ==
    /\ Cardinality({FoldedName(METHOD_CATALOG[n].method) :
                        n \in 1..Len(METHOD_CATALOG)}) = Len(METHOD_CATALOG)
    /\ Cardinality({METHOD_CATALOG[n].tool :
                        n \in 1..Len(METHOD_CATALOG)}) = Len(METHOD_CATALOG)
    /\ \A i \in Invocations :
          (pc[i] = "done" /\ call[i].tool = "datalens_list_methods"
              /\ outcome[i].ok) =>
              LET listed == outcome[i].value["methods"].a
              IN  /\ Cardinality({FoldedName(listed[n].o["method"].s) :
                                      n \in 1..Len(listed)}) = Len(listed)
                  /\ Cardinality({listed[n].o["mcpTool"] :
                                      n \in 1..Len(listed)}) = Len(listed)

C23_Witness ==
    \E i \in Invocations :
        /\ pc[i] = "done"
        /\ call[i].tool = "datalens_list_methods"
        /\ outcome[i].ok
        /\ Len(outcome[i].value["methods"].a) = 26
        /\ outcome[i].value["methods"].a[16].o["method"] = JStr("getQLChart")
        /\ outcome[i].value["methods"].a[17].o["method"] = JStr("deleteQLChart")

----------------------------------------------------------------------------
\* C24: the catalog listing needs no configuration and sends no request,
\* and whatever was invoked before, it returns the same result: the catalog
\* entries in declaration order, totalMethods equal to the number of
\* entries listed, and the catalog's snapshot date and source.
C24_ListingStable ==
    \A i \in Invocations :
        (pc[i] /= "idle" /\ call[i].tool = "datalens_list_methods") =>
            /\ pc[i] = "done"
            /\ sent[i] = <<>>
            /\ outcome[i].ok
            /\ {"methods", "totalMethods", "snapshotDate", "sourceUrl"}
                  \subseteq DOMAIN outcome[i].value
            /\ LET listed == outcome[i].value["methods"].a
               IN  /\ Len(listed) = Len(METHOD_CATALOG)
                   /\ \A n \in 1..Len(listed) :
                         n <= Len(METHOD_CATALOG) =>
                            /\ listed[n].o["method"] = JStr(METHOD_CATALOG[n].method)
                            /\ listed[n].o["mcpTool"] = JStr(METHOD_CATALOG[n].tool)
                   /\ outcome[i].value["totalMethods"] = JNum(Len(listed))
            /\ outcome[i].value["snapshotDate"] = JStr("2026-02-18")
            /\ outcome[i].value["sourceUrl"] = JStr(METHOD_CATALOG_SOURCE_URL)

\* The listing returned on a server with no organization id and no token.
C24_Witness ==
    \E i \in Invocations :
        /\ pc[i] = "done"
        /\ call[i].tool = "datalens_list_methods"
        /\ ~cfg.org_id.some
        /\ ~cfg.subject_token.some
        /\ sent[i] = <<>>
        /\ outcome[i].ok
        /\ outcome[i].value["totalMethods"] = JNum(26)
        /\ outcome[i].value["methods"].a[1].o["method"] = JStr("getConnection")
        /\ outcome[i].value["methods"].a[26].o["method"] = JStr("listDirectory")

----------------------------------------------------------------------------
\* What one invocation holds.
Locals(i) == <<pc[i], call[i], sent[i], resp[i], outcome[i]>>

\* The outcomes invocation i may have when it runs alone with its arguments
\* and the response it received.
AloneOutcomes(i) ==
    LET r == ToolCall(call[i].tool, call[i].arguments)
    IN  IF r.outcome /= NoOutcome THEN {r.outcome}
        ELSE IF resp[i].read
        THEN {classify_response(r.method, resp[i].status, resp[i].body)}
        ELSE IF resp[i].status /= 0
        THEN {read_error(cause) : cause \in TransportCauses}
        ELSE {send_error(r.method, cause) : cause \in TransportCauses}

\* The requests invocation i sends when it runs alone.
AloneSent(i) ==
    LET r == ToolCall(call[i].tool, call[i].arguments)
    IN  IF r.outcome /= NoOutcome THEN <<>> ELSE <<r.request>>

\* C25: concurrent invocations do not interfere.  Under every interleaving
\* of two invocations, each one's request and outcome are those of a run
\* alone with its arguments and its response, no step writes the
\* configuration, and no step changes what two invocations hold.
C25_NoInterference ==
    /\ [](\A i \in Invocations :
            pc[i] /= "idle" =>
                /\ sent[i] = AloneSent(i)
                /\ IF pc[i] = "done" THEN outcome[i] \in AloneOutcomes(i)
                   ELSE outcome[i] = NoOutcome)
    /\ [][/\ cfg' = cfg
          /\ \A i, j \in Invocations :
                i /= j => (Locals(i)' = Locals(i) \/ Locals(j)' = Locals(j))]_vars

\* Two invocations in flight with different responses, one returned an
\* upstream error while the other's request is still out.
C25_Witness ==
    \E i, j \in Invocations :
        /\ i /= j
        /\ pc[i] = "done" /\ resp[i].read /\ resp[i].status = 500
        /\ outcome[i].code = "internal_error"
        /\ pc[j] = "reading" /\ resp[j].status = 200
        /\ sent[i] /= <<>> /\ sent[j] /= <<>>
        /\ call[i].method /= call[j].method

----------------------------------------------------------------------------
\* The text of DATALENS_TIMEOUT_SECONDS as a caller reads it: blanks at
\* its ends aside, and no text when the variable is unset or unreadable.
TimeoutGiven ==
    IF env["DATALENS_TIMEOUT_SECONDS"].present /\ env["DATALENS_TIMEOUT_SECONDS"].unicode
    THEN Trim(env["DATALENS_TIMEOUT_SECONDS"].v)
    ELSE <<>>

\* The digits of a text that writes an integer without a minus sign.
DigitsOf(text) == IF text /= <<>> /\ text[1] = "+" THEN Tail(text) ELSE text

\* The text writes a positive integer: digits, a + before them or not, and
\* a value above zero.
IsPositiveInteger(text) ==
    /\ DigitsOf(text) /= <<>>
    /\ \A n \in 1..Len(DigitsOf(text)) : DigitsOf(text)[n] \in Digits
    /\ DecimalValue(DigitsOf(text)) > 0

----------------------------------------------------------------------------
\* A variable holds a value a credential can be taken from: text that is
\* not empty once the whitespace at its ends is gone.  Bytes that are not
\* Unicode are no text and count as unset.
HoldsValue(name) ==
    env[name].present /\ env[name].unicode /\ Trim(env[name].v) /= <<>>

\* The credential variables, first to last.
CredentialNames == <<"DATALENS_IAM_TOKEN", "YC_IAM_TOKEN", "DATALENS_SUBJECT_TOKEN">>

\* C27: the credential is the trimmed value of the first of
\* DATALENS_IAM_TOKEN, YC_IAM_TOKEN and DATALENS_SUBJECT_TOKEN that is not
\* empty after trimming; a blank value is passed over like an unset one,
\* and there is no credential exactly when none of the three holds a value.
C27_FirstNonEmptyCredential ==
    boot /= "main" =>
        LET holding == {n \in 1..Len(CredentialNames) : HoldsValue(CredentialNames[n])}
        IN  /\ cfg.subject_token.some <=> holding /= {}
            /\ holding /= {} =>
                  LET first == CHOOSE n \in holding : \A m \in holding : n <= m
                  IN  cfg.subject_token.v = Trim(env[CredentialNames[first]].v)
            /\ cfg.subject_token.some => cfg.subject_token.v /= <<>>

\* DATALENS_IAM_TOKEN is blank, the other two hold tokens, and the server
\* runs with the token of YC_IAM_TOKEN, trimmed.
C27_Witness ==
    /\ boot = "serving"
    /\ env["DATALENS_IAM_TOKEN"] = SetTo(<<" ", "nbsp">>)
    /\ env["YC_IAM_TOKEN"] = SetTo(<<" ", "y", "\n">>)
    /\ env["DATALENS_SUBJECT_TOKEN"] = SetTo(<<"s">>)
    /\ cfg.subject_token = Some(<<"y">>)

----------------------------------------------------------------------------
\* The catalog entries that name a tool, and those that name a method.
EntriesOfTool(tool) ==
    {n \in 1..Len(METHOD_CATALOG) : METHOD_CATALOG[n].tool = tool}
EntriesOfMethod(method) ==
    {n \in 1..Len(METHOD_CATALOG) : METHOD_CATALOG[n].method = method}

\* C28: every catalog entry's tool is a typed tool, and every invocation
\* of a typed tool that reaches the call engine calls the method of the
\* tool's catalog entry (datalens_create_dataset calls createDataset): the
\* method handed to call_rpc and the one in the request URL are the
\* entry's, and no entry pairs that method with another tool.
C28_ToolCallsItsMethod ==
    /\ \A n \in 1..Len(METHOD_CATALOG) : METHOD_CATALOG[n].tool \in TypedToolNames
    /\ \A i \in Invocations :
          (pc[i] /= "idle" /\ call[i].tool \in TypedToolNames /\ call[i].args.ok) =>
              /\ EntriesOfTool(call[i].tool) /= {}
              /\ \A n \in EntriesOfTool(call[i].tool) :
                    /\ call[i].method = METHOD_CATALOG[n].method
                    /\ sent[i] /= <<>> =>
                          sent[i][1].url = Cat(TrimEndSlash(cfg.base_url)) \o "/rpc/"
                                              \o METHOD_CATALOG[n].method
              /\ EntriesOfMethod(call[i].method) \subseteq EntriesOfTool(call[i].tool)

C28_Witness ==
    \E i \in Invocations :
        /\ pc[i] = "sending"
        /\ call[i].tool = "datalens_create_dataset"
        /\ call[i].method = "createDataset"
        /\ Len(sent[i]) = 1
        /\ sent[i][1].url = "http://dl/rpc/createDataset"

----------------------------------------------------------------------------
\* The payload invocation i handed to the call engine.
EnginePayload(i) == ToolPayload(call[i].tool, call[i].args)

\* Invocation i ran the call engine's checks.
RanChecks(i) ==
    /\ pc[i] /= "idle"
    /\ call[i].tool \in ToolNames \ {"datalens_list_methods"}
    /\ call[i].args.ok

\* C29: the checks before the request run in a fixed order and the first
\* that fails decides the error.  A payload that is no object gives the
\* invalid-arguments error whatever the configuration lacks; with an object
\* payload a missing organization id gives the error naming
\* DATALENS_ORG_ID, also when the credential is missing too; the error
\* naming the credential comes only with an organization id present.
C29_CheckOrder ==
    \A i \in Invocations :
        RanChecks(i) =>
            /\ ~is_object(EnginePayload(i)) =>
                  /\ sent[i] = <<>>
                  /\ outcome[i].code = "invalid_params"
                  /\ outcome[i].message = "payload must be a JSON object"
            /\ (is_object(EnginePayload(i)) /\ ~cfg.org_id.some) =>
                  /\ sent[i] = <<>>
                  /\ outcome[i].code = "invalid_request"
                  /\ outcome[i].message
                        = "DATALENS_ORG_ID environment variable is required"
            /\ (is_object(EnginePayload(i)) /\ cfg.org_id.some
                    /\ ~cfg.subject_token.some) =>
                  /\ sent[i] = <<>>
                  /\ outcome[i].code = "invalid_request"
                  /\ outcome[i].message
                        = "YC_IAM_TOKEN (or DATALENS_IAM_TOKEN) environment variable is required"

\* A payload that is no object on a server with neither organization id
\* nor credential: the error is the one about the payload.
C29_Witness ==
    \E i \in Invocations :
        /\ RanChecks(i)
        /\ pc[i] = "done"
        /\ ~is_object(EnginePayload(i))
        /\ ~cfg.org_id.some
        /\ ~cfg.subject_token.some
        /\ outcome[i].code = "invalid_params"

----------------------------------------------------------------------------
\* The names serde accepts for the field of a slot of a tool's arguments.
NamesOfSlot(tool, slot) ==
    UNION {f.names : f \in {g \in FieldSet(ToolShape(tool)) : g.slot = slot}}

\* C30: for arguments obtained by deserializing the caller's object, every
\* key that is a name or alias of a typed field is consumed by that field
\* and kept out of the extra bag; every key a handler writes for a typed
\* field is a name or alias of that field; so the extra bag holds no key
\* the handler writes for a typed field, and in the request every typed
\* field keeps the value it was deserialized with.
C30_ExtraNeverCollides ==
    \A i \in Invocations :
        (/\ pc[i] /= "idle"
         /\ call[i].tool \in TypedToolNames
         /\ call[i].args = Deserialize(ToolShape(call[i].tool), call[i].arguments)
         /\ call[i].args.ok) =>
            LET tool == call[i].tool
                args == call[i].args
                inserts == ToolInserts(tool)
            IN  /\ \A f \in FieldSet(ToolShape(tool)) :
                      \A k \in f.names \cap DOMAIN call[i].arguments :
                          /\ k \notin DOMAIN args.extra
                          /\ \/ /\ f.slot \in DOMAIN args.slots
                                /\ args.slots[f.slot] = call[i].arguments[k]
                             \/ /\ f.req = "optional"
                                /\ call[i].arguments[k].t = "null"
                /\ \A n \in 1..Len(inserts) :
                      inserts[n][2] \in NamesOfSlot(tool, inserts[n][1])
                /\ DOMAIN args.extra \cap EmittedKeys(tool) = {}
                /\ sent[i] /= <<>> =>
                      \A n \in 1..Len(inserts) :
                          inserts[n][1] \in DOMAIN args.slots =>
                              /\ inserts[n][2] \in DOMAIN sent[i][1].body.o
                              /\ sent[i][1].body.o[inserts[n][2]]
                                    = args.slots[inserts[n][1]]

\* The delete-dataset tool given the alias datasetId and a key of no
\* field: the alias fills dataset_id, the other key alone is in the bag,
\* and both reach the request with the caller's values.
C30_Witness ==
    \E i \in Invocations :
        /\ pc[i] = "sending"
        /\ call[i].tool = "datalens_delete_dataset"
        /\ call[i].arguments = [datasetId |-> JStr("v"), note |-> JStr("x")]
        /\ call[i].args.slots = [dataset_id |-> JStr("v")]
        /\ call[i].args.extra = [note |-> JStr("x")]
        /\ sent[i][1].body = JObj([datasetId |-> JStr("v"), note |-> JStr("x")])

====
